---- MODULE Spec2Model ----
(***************************************************************************)
(* A model of http-kit's data-plane core: the Body payload abstraction     *)
(* (src/src/body/mod.rs) and the Server-Sent-Events codec built on it      *)
(* (src/src/sse.rs).                                                       *)
(*                                                                         *)
(* Bytes and chars are integers (byte values, Unicode code points); byte   *)
(* strings and Strings are sequences of them.  Option<T> is a sequence of  *)
(* length at most one: None is << >>, Some(v) is <<v>>.                    *)
(***************************************************************************)
EXTENDS Integers, Sequences, FiniteSets, TLC

VARIABLES
    a,      \* a Body: the receiver of every Body operation (`body` in the tests)
    b,      \* a second Body: the argument of swap, and where the Body that
            \* take() or replace() returns is kept (`other`, `taken`, `old_body`)
    last,   \* the last Body operation and what it returned
    origin, \* history: how `a` came to hold its present content
    sse,    \* an SseStream: [body, buffer, partial_event]
    wire,   \* the bytes the stream behind sse.body has not delivered yet
    hist    \* history of the decoding: input, events yielded, last poll, ...

vars == <<a, b, last, origin, sse, wire, hist>>

bodyVars == <<a, b, last, origin>>
sseVars == <<sse, wire, hist>>

---------------------------------------------------------------------------
(* Option, Result and Poll values                                          *)

None == << >>
Some(v) == <<v>>

\* Result<Bytes, Error> and the items of a stream: tag is "Ok" or "Err".
\* A Poll<Option<Result<..>>> adds the tags "None" and "Pending".
Ok(v) == [tag |-> "Ok", val |-> v, err |-> ""]
Err(e) == [tag |-> "Err", val |-> << >>, err |-> e]
ReadyNone == [tag |-> "None", val |-> << >>, err |-> ""]
Pending == [tag |-> "Pending", val |-> << >>, err |-> ""]

BodyFrozen == "BodyFrozen"
IoError == "Io"
Utf8Error == "Utf8"

---------------------------------------------------------------------------
(* Body: struct Body { mime, inner } with enum BodyInner                   *)
(*   Once(Bytes) | Reader { reader, length } | HttpBody(..) | Freeze.      *)
(* One record shape serves the four variants: `bytes` is the Once payload, *)
(* `src` the reader's or stream's future (the sequence of outcomes its     *)
(* polls will produce: Ok(chunk), Err(e) or Pending; end of input after    *)
(* the last), `length` the Reader's hint.  `done` says the reader or       *)
(* stream has reported end of input, `late` that it was polled again after *)
(* that.  Moved is no Body at all: a variable whose value was moved out.   *)

MkBody(mime, kind, bytes, src, length) ==
    [mime |-> mime, kind |-> kind, bytes |-> bytes, src |-> src,
     length |-> length, done |-> FALSE, late |-> FALSE]

Moved == MkBody(None, "Moved", << >>, << >>, None)

APPLICATION_OCTET_STREAM == "application/octet-stream"

empty == MkBody(None, "Once", << >>, << >>, None)

frozen == MkBody(None, "Freeze", << >>, << >>, None)

from_reader(reader, length) == MkBody(None, "Reader", << >>, reader, length)

from_stream(stream) == MkBody(None, "HttpBody", << >>, stream, None)

from_bytes(data) == MkBody(Some(APPLICATION_OCTET_STREAM), "Once", data, << >>, None)

is_frozen(self) == self.kind = "Freeze"

mime(self) == self.mime

len(self) ==
    CASE self.kind = "Once" -> Some(Len(self.bytes))
      [] self.kind = "Reader" -> self.length
      [] OTHER -> None

\* Mutant of saturating_sub: a plain subtraction.
unchecked_sub(x, y) == x - y

saturating_sub(x, y) == IF x >= y THEN x - y ELSE 0

\* One poll of the reader or stream behind a body (poll_fill_buf + consume of
\* everything filled, or poll_frame): the next outcome of `src`, or end of input.
poll_source(self) ==
    IF self.src = << >>
    THEN [self |-> [self EXCEPT !.done = TRUE, !.late = self.done \/ self.late],
          ret |-> ReadyNone]
    ELSE [self |-> [self EXCEPT !.src = Tail(self.src)], ret |-> Head(self.src)]

\* Mutant of poll_next: a frozen body ends the stream instead of failing.
Body_poll_next_frozen_ends(self) ==
    IF self.kind \in {"Once", "Reader", "HttpBody"}
    THEN CASE self.kind = "Once" ->
                 IF self.bytes = << >>
                 THEN [self |-> self, ret |-> ReadyNone]
                 ELSE [self |-> [self EXCEPT !.bytes = << >>], ret |-> Ok(self.bytes)]
           [] self.kind = "Reader" ->
                 LET r == poll_source(self)
                 IN  IF r.ret.tag = "Ok" /\ self.length # None
                     THEN [self |-> [r.self EXCEPT !.length =
                               Some(saturating_sub(self.length[1], Len(r.ret.val)))],
                           ret |-> r.ret]
                     ELSE r
           [] OTHER -> poll_source(self)
    ELSE [self |-> self, ret |-> ReadyNone]

\* Mutant of poll_next: an in-memory payload is handed out but not taken.
Body_poll_next_once_repeats(self) ==
    CASE self.kind = "Once" ->
            IF self.bytes = << >>
            THEN [self |-> self, ret |-> ReadyNone]
            ELSE [self |-> self, ret |-> Ok(self.bytes)]
      [] self.kind = "Reader" ->
            LET r == poll_source(self)
            IN  IF r.ret.tag = "Ok" /\ self.length # None
                THEN [self |-> [r.self EXCEPT !.length =
                                  Some(saturating_sub(self.length[1], Len(r.ret.val)))],
                      ret |-> r.ret]
                ELSE r
      [] self.kind = "HttpBody" -> poll_source(self)
      [] OTHER -> [self |-> self, ret |-> Err(BodyFrozen)]

\* <Body as Stream>::poll_next: the body after the poll and the poll's result.
Body_poll_next(self) ==
    CASE self.kind = "Once" ->
            IF self.bytes = << >>
            THEN [self |-> self, ret |-> ReadyNone]
            ELSE [self |-> [self EXCEPT !.bytes = << >>], ret |-> Ok(self.bytes)]
      [] self.kind = "Reader" ->
            LET r == poll_source(self)
            IN  IF r.ret.tag = "Ok" /\ self.length # None
                THEN [self |-> [r.self EXCEPT !.length =
                                  Some(saturating_sub(self.length[1], Len(r.ret.val)))],
                      ret |-> r.ret]
                ELSE r
      [] self.kind = "HttpBody" -> poll_source(self)
      [] OTHER -> [self |-> self, ret |-> Err(BodyFrozen)]

\* `.await` on the next item of the reader or stream: polls until it is ready.
RECURSIVE try_next(_)
try_next(self) ==
    LET r == poll_source(self)
    IN  IF r.ret.tag = "Pending" THEN try_next(r.self) ELSE r

\* Mutant of the loops of into_bytes: an error ends them like the end of input.
RECURSIVE extend_to_end_swallows(_, _)
extend_to_end_swallows(self, vec) ==
    LET r == try_next(self)
    IN  CASE r.ret.tag = "Ok" -> extend_to_end_swallows(r.self, vec \o r.ret.val)
          [] OTHER -> [self |-> r.self, ret |-> Ok(vec)]

\* The loops of into_bytes (`loop { fill_buf .. }`, `while let Some(data) = ..`):
\* append every chunk to vec until end of input; an error ends them (`?`).
RECURSIVE extend_to_end(_, _)
extend_to_end(self, vec) ==
    LET r == try_next(self)
    IN  CASE r.ret.tag = "Ok" -> extend_to_end(r.self, vec \o r.ret.val)
          [] r.ret.tag = "None" -> [self |-> r.self, ret |-> Ok(vec)]
          [] OTHER -> r

\* Mutant of into_bytes: an empty in-memory payload is taken for a consumed body.
into_bytes_empty_is_frozen(self) ==
    CASE self.kind = "Once" ->
            IF self.bytes = << >> THEN [self |-> self, ret |-> Err(BodyFrozen)]
            ELSE [self |-> self, ret |-> Ok(self.bytes)]
      [] self.kind \in {"Reader", "HttpBody"} -> extend_to_end(self, << >>)
      [] OTHER -> [self |-> self, ret |-> Err(BodyFrozen)]

\* Mutant of into_bytes: the first chunk of a stream is left out of the buffer
\* the later chunks are copied into.
into_bytes_drops_first(self) ==
    CASE self.kind = "Once" -> [self |-> self, ret |-> Ok(self.bytes)]
      [] self.kind = "Reader" -> extend_to_end(self, << >>)
      [] self.kind = "HttpBody" ->
            LET r1 == try_next(self)
            IN  IF r1.ret.tag = "Err" THEN r1
                ELSE LET first == r1.ret.val
                         r2 == try_next(r1.self)
                     IN  CASE r2.ret.tag = "Err" -> r2
                           [] r2.ret.tag = "Ok" -> extend_to_end(r2.self, r2.ret.val)
                           [] OTHER -> [self |-> r2.self, ret |-> Ok(first)]
      [] OTHER -> [self |-> self, ret |-> Err(BodyFrozen)]

\* Mutant of into_bytes: a reader is read up to its length hint only.
into_bytes_trusts_hint(self) ==
    CASE self.kind = "Once" -> [self |-> self, ret |-> Ok(self.bytes)]
      [] self.kind = "Reader" ->
            LET r == extend_to_end(self, << >>)
            IN  IF r.ret.tag = "Ok" /\ self.length # None
                   /\ self.length[1] < Len(r.ret.val)
                THEN [self |-> r.self, ret |-> Ok(SubSeq(r.ret.val, 1, self.length[1]))]
                ELSE r
      [] self.kind = "HttpBody" ->
            LET r1 == try_next(self)
            IN  IF r1.ret.tag = "Err" THEN r1
                ELSE LET first == r1.ret.val
                         r2 == try_next(r1.self)
                     IN  CASE r2.ret.tag = "Err" -> r2
                           [] r2.ret.tag = "Ok" ->
                                extend_to_end(r2.self, first \o r2.ret.val)
                           [] OTHER -> [self |-> r2.self, ret |-> Ok(first)]
      [] OTHER -> [self |-> self, ret |-> Err(BodyFrozen)]

\* Body::into_bytes(self): its Result, and the consumed body as it was left
\* (dropped by the caller; kept here for what was polled from it).
into_bytes(self) ==
    CASE self.kind = "Once" -> [self |-> self, ret |-> Ok(self.bytes)]
      [] self.kind = "Reader" -> extend_to_end(self, << >>)
      [] self.kind = "HttpBody" ->
            LET r1 == try_next(self)
            IN  IF r1.ret.tag = "Err" THEN r1
                ELSE LET first == r1.ret.val     \* unwrap_or_default
                         r2 == try_next(r1.self)
                     IN  CASE r2.ret.tag = "Err" -> r2
                           [] r2.ret.tag = "Ok" ->
                                extend_to_end(r2.self, first \o r2.ret.val)
                           [] OTHER -> [self |-> r2.self, ret |-> Ok(first)]
      [] OTHER -> [self |-> self, ret |-> Err(BodyFrozen)]

\* core::str::from_utf8 / ByteStr::from_utf8 over the model's bytes: ASCII bytes
\* are valid, the byte 0xFF never is.
valid_utf8(bytes) == \A k \in 1..Len(bytes) : bytes[k] < 128

\* Mutant of into_string: the bytes are not validated.
into_string_unchecked(self) == into_bytes(self)

\* Body::into_string(self)
into_string(self) ==
    LET r == into_bytes(self)
    IN  IF r.ret.tag = "Ok" /\ ~valid_utf8(r.ret.val)
        THEN [self |-> r.self, ret |-> Err(Utf8Error)]
        ELSE r

\* Mutant of replace: hands back the new body instead of the old one.
replace_returns_new(self, body) == [self |-> body, ret |-> body]

\* core::mem::replace(self, body): the receiver now, and the Body returned.
replace(self, body) == [self |-> body, ret |-> self]

\* Mutant of swap: refuses when either operand is frozen.
swap_either_frozen(self, body) ==
    IF is_frozen(self) \/ is_frozen(body)
    THEN [self |-> self, body |-> body, ret |-> Err(BodyFrozen)]
    ELSE [self |-> body, body |-> self, ret |-> Ok(<< >>)]

\* Mutant of swap: no frozen check at all.
swap_unchecked(self, body) == [self |-> body, body |-> self, ret |-> Ok(<< >>)]

\* Body::swap(&mut self, body: &mut Body)
swap(self, body) ==
    IF is_frozen(self)
    THEN [self |-> self, body |-> body, ret |-> Err(BodyFrozen)]
    ELSE [self |-> body, body |-> self, ret |-> Ok(<< >>)]

\* Mutant of take: hands out a copy and leaves the receiver as it was.
take_keeps_content(self) ==
    IF is_frozen(self)
    THEN [self |-> self, taken |-> Moved, ret |-> Err(BodyFrozen)]
    ELSE [self |-> self, taken |-> self, ret |-> Ok(<< >>)]

\* Body::take(&mut self): `taken` is the Body inside Ok.
take(self) ==
    IF is_frozen(self)
    THEN [self |-> self, taken |-> Moved, ret |-> Err(BodyFrozen)]
    ELSE LET r == replace(self, frozen)
         IN  [self |-> r.self, taken |-> r.ret, ret |-> Ok(<< >>)]

\* Body::freeze(&mut self): the Body replace() returns is dropped.
freeze(self) == replace(self, frozen).self

\* Mutant of as_bytes: a failed read puts the taken body back.
as_bytes_restores(self) ==
    LET t == take(self)
    IN  IF t.ret.tag = "Err" THEN [self |-> t.self, ret |-> t.ret]
        ELSE LET r == into_bytes(t.taken)
             IN  IF r.ret.tag = "Err" THEN [self |-> r.self, ret |-> r.ret]
                 ELSE [self |-> [t.self EXCEPT !.kind = "Once", !.bytes = r.ret.val],
                       ret |-> r.ret]

\* Mutant of as_bytes: the bytes are returned but not stored back.
as_bytes_leaves_frozen(self) ==
    LET t == take(self)
    IN  IF t.ret.tag = "Err" THEN [self |-> t.self, ret |-> t.ret]
        ELSE [self |-> t.self, ret |-> into_bytes(t.taken).ret]

\* Body::as_bytes(&mut self).  self.take()? leaves self frozen; into_bytes()?
\* returns early on an error; only then is self.inner assigned.
as_bytes(self) ==
    LET t == take(self)
    IN  IF t.ret.tag = "Err" THEN [self |-> t.self, ret |-> t.ret]
        ELSE LET r == into_bytes(t.taken)
             IN  IF r.ret.tag = "Err" THEN [self |-> t.self, ret |-> r.ret]
                 ELSE [self |-> [t.self EXCEPT !.kind = "Once", !.bytes = r.ret.val],
                       ret |-> r.ret]

\* Body::as_str(&mut self)
as_str(self) ==
    LET r == as_bytes(self)
    IN  IF r.ret.tag = "Ok" /\ ~valid_utf8(r.ret.val)
        THEN [self |-> r.self, ret |-> Err(Utf8Error)]
        ELSE r

---------------------------------------------------------------------------
(* Server-Sent Events (src/src/sse.rs).  A String is the sequence of its    *)
(* chars; these are the ASCII codes the codec looks for.                    *)

LF == 10                        \* '\n'
CR == 13                        \* '\r'
PLUS == 43                      \* '+'
ZERO == 48                      \* '0'
REPLACEMENT_CHARACTER == 65533  \* U+FFFD
ZWNBSP == 65279                 \* U+FEFF, the byte order mark
BOM == <<239, 187, 191>>        \* its UTF-8 encoding

data_colon == <<100, 97, 116, 97, 58>>          \* "data:"
event_colon == <<101, 118, 101, 110, 116, 58>>  \* "event:"
id_colon == <<105, 100, 58>>                    \* "id:"
retry_colon == <<114, 101, 116, 114, 121, 58>>  \* "retry:"
colon == <<58>>                                 \* ":"
space == <<32>>                                 \* " "

\* struct Event { id, event, data, retry }
Event(id, event, data, retry) == [id |-> id, event |-> event, data |-> data, retry |-> retry]

\* PartialEvent::default() (#[derive(Default)])
PartialEvent_default == [id |-> None, event |-> None, data |-> << >>, retry |-> None]

\* u64::to_string: decimal digits, most significant first.
RECURSIVE to_string(_)
to_string(n) ==
    IF n < 10 THEN <<ZERO + n>> ELSE Append(to_string(n \div 10), ZERO + (n % 10))

\* str::parse::<u64>: an optional '+', then one or more decimal digits.
\* (Values of ten digits or more, beyond every input here, are not represented.)
RECURSIVE digits_value(_, _)
digits_value(s, acc) ==
    IF s = << >> THEN acc ELSE digits_value(Tail(s), 10 * acc + (Head(s) - ZERO))

\* parse_u64 that reads 0 where there is no number.
parse_u64_or_zero(s) ==
    LET d == IF s # << >> /\ Head(s) = PLUS THEN Tail(s) ELSE s
    IN  IF d # << >> /\ Len(d) < 10 /\ \A k \in 1..Len(d) : d[k] \in ZERO..(ZERO + 9)
        THEN Some(digits_value(d, 0))
        ELSE Some(0)

parse_u64(s) ==
    LET d == IF s # << >> /\ Head(s) = PLUS THEN Tail(s) ELSE s
    IN  IF d # << >> /\ Len(d) < 10 /\ \A k \in 1..Len(d) : d[k] \in ZERO..(ZERO + 9)
        THEN Some(digits_value(d, 0))
        ELSE None

\* String::from_utf8_lossy over the model's bytes: ASCII stays, the three
\* bytes of a byte order mark become U+FEFF, each 0xFF becomes U+FFFD.
RECURSIVE from_utf8_lossy(_)
from_utf8_lossy(bytes) ==
    IF bytes = << >> THEN << >>
    ELSE IF Head(bytes) < 128 THEN <<Head(bytes)>> \o from_utf8_lossy(Tail(bytes))
    ELSE IF Len(bytes) >= 3 /\ SubSeq(bytes, 1, 3) = BOM
         THEN <<ZWNBSP>> \o from_utf8_lossy(SubSeq(bytes, 4, Len(bytes)))
         ELSE <<REPLACEMENT_CHARACTER>> \o from_utf8_lossy(Tail(bytes))

\* str::strip_prefix: Some(rest) when s starts with prefix.
strip_prefix(s, prefix) ==
    IF Len(s) >= Len(prefix) /\ SubSeq(s, 1, Len(prefix)) = prefix
    THEN Some(SubSeq(s, Len(prefix) + 1, Len(s)))
    ELSE None

\* str::trim_end_matches('\n')
RECURSIVE trim_end_matches(_)
trim_end_matches(s) ==
    IF s # << >> /\ s[Len(s)] = LF THEN trim_end_matches(SubSeq(s, 1, Len(s) - 1)) ELSE s

\* Index of the first '\n' of s, 0 when there is none.
RECURSIVE find_lf(_, _)
find_lf(s, k) ==
    IF k > Len(s) THEN 0 ELSE IF s[k] = LF THEN k ELSE find_lf(s, k + 1)

\* str::lines: split after each '\n'; a line loses its "\n" and then one "\r";
\* a last line without "\n" is returned as it is.
RECURSIVE lines(_)
lines(s) ==
    IF s = << >> THEN << >>
    ELSE LET k == find_lf(s, 1)
         IN  IF k = 0 THEN <<s>>
             ELSE LET l == SubSeq(s, 1, k - 1)
                      line == IF l # << >> /\ l[Len(l)] = CR
                              THEN SubSeq(l, 1, Len(l) - 1) ELSE l
                  IN  <<line>> \o lines(SubSeq(s, k + 1, Len(s)))

\* [String]::join("\n")
RECURSIVE join(_)
join(data) ==
    IF data = << >> THEN << >>
    ELSE IF Len(data) = 1 THEN data[1]
    ELSE data[1] \o <<LF>> \o join(Tail(data))

\* classify that drops the pending data at a comment and everything pending
\* at a line it does not know.
classify_forgets(partial, line) ==
    LET try(p) == strip_prefix(line, p)
    IN  CASE try(data_colon \o space) # None ->
                [partial EXCEPT !.data = Append(@, try(data_colon \o space)[1])]
          [] try(data_colon) # None ->
                [partial EXCEPT !.data = Append(@, try(data_colon)[1])]
          [] try(event_colon \o space) # None ->
                [partial EXCEPT !.event = try(event_colon \o space)]
          [] try(event_colon) # None ->
                [partial EXCEPT !.event = try(event_colon)]
          [] try(id_colon \o space) # None ->
                [partial EXCEPT !.id = try(id_colon \o space)]
          [] try(id_colon) # None ->
                [partial EXCEPT !.id = try(id_colon)]
          [] try(retry_colon \o space) # None ->
                LET r == parse_u64(try(retry_colon \o space)[1])
                IN  IF r # None THEN [partial EXCEPT !.retry = r] ELSE partial
          [] try(retry_colon) # None ->
                LET r == parse_u64(try(retry_colon)[1])
                IN  IF r # None THEN [partial EXCEPT !.retry = r] ELSE partial
          [] line = colon \/ try(colon \o space) # None ->
                [partial EXCEPT !.data = << >>]
          [] line = << >> -> partial
          [] OTHER -> PartialEvent_default

\* str::trim_start over spaces.
RECURSIVE trim_start(_)
trim_start(s) == IF s # << >> /\ Head(s) = 32 THEN trim_start(Tail(s)) ELSE s

\* classify that takes every leading space off a data value.
classify_trims(partial, line) ==
    LET try(p) == strip_prefix(line, p)
    IN  CASE try(data_colon) # None ->
                [partial EXCEPT !.data = Append(@, trim_start(try(data_colon)[1]))]
          [] try(event_colon \o space) # None ->
                [partial EXCEPT !.event = try(event_colon \o space)]
          [] try(event_colon) # None ->
                [partial EXCEPT !.event = try(event_colon)]
          [] try(id_colon \o space) # None ->
                [partial EXCEPT !.id = try(id_colon \o space)]
          [] try(id_colon) # None ->
                [partial EXCEPT !.id = try(id_colon)]
          [] try(retry_colon \o space) # None ->
                LET r == parse_u64(try(retry_colon \o space)[1])
                IN  IF r # None THEN [partial EXCEPT !.retry = r] ELSE partial
          [] try(retry_colon) # None ->
                LET r == parse_u64(try(retry_colon)[1])
                IN  IF r # None THEN [partial EXCEPT !.retry = r] ELSE partial
          [] OTHER -> partial

\* The strip_prefix chain both branches of parse_event_from_buffer apply to a
\* line: the first prefix that matches decides; a retry value that does not
\* parse, a comment and an unknown line leave the partial event as it is.
classify(partial, line) ==
    LET try(p) == strip_prefix(line, p)
    IN  CASE try(data_colon \o space) # None ->
                [partial EXCEPT !.data = Append(@, try(data_colon \o space)[1])]
          [] try(data_colon) # None ->
                [partial EXCEPT !.data = Append(@, try(data_colon)[1])]
          [] try(event_colon \o space) # None ->
                [partial EXCEPT !.event = try(event_colon \o space)]
          [] try(event_colon) # None ->
                [partial EXCEPT !.event = try(event_colon)]
          [] try(id_colon \o space) # None ->
                [partial EXCEPT !.id = try(id_colon \o space)]
          [] try(id_colon) # None ->
                [partial EXCEPT !.id = try(id_colon)]
          [] try(retry_colon \o space) # None ->
                LET r == parse_u64(try(retry_colon \o space)[1])
                IN  IF r # None THEN [partial EXCEPT !.retry = r] ELSE partial
          [] try(retry_colon) # None ->
                LET r == parse_u64(try(retry_colon)[1])
                IN  IF r # None THEN [partial EXCEPT !.retry = r] ELSE partial
          [] line = colon \/ try(colon \o space) # None -> partial    \* comment
          [] OTHER -> partial

\* `for line in event_str.lines()` of the separator branch.
RECURSIVE classify_lines(_, _)
classify_lines(partial, ls) ==
    IF ls = << >> THEN partial
    ELSE classify_lines(classify(partial, Head(ls)), Tail(ls))

\* The Event built from the partial event (the take()s and clear() reset it).
build_event(partial) == Event(partial.id, partial.event, join(partial.data), partial.retry)

\* parse_event_from_buffer from index i on (i counts from 0 as in the code).
\* A separator at i drains buffer[..=i+1]; without data in the partial event the
\* loop goes on with the same i in the shortened buffer: the single-newline
\* test reads buffer[i] there, and only that branch sets i back to 0.
RECURSIVE scan(_, _, _)
scan(buffer, partial, i) ==
    IF i >= Len(buffer)
    THEN [buffer |-> buffer, partial_event |-> partial, ret |-> None]
    ELSE LET sep == i + 1 < Len(buffer) /\ buffer[i + 1] = LF /\ buffer[i + 2] = LF
             buf1 == IF sep THEN SubSeq(buffer, i + 3, Len(buffer)) ELSE buffer
             pe1 == IF sep
                    THEN classify_lines(partial,
                             lines(from_utf8_lossy(SubSeq(buffer, 1, i + 2))))
                    ELSE partial
         IN  IF sep /\ pe1.data # << >>
             THEN [buffer |-> buf1, partial_event |-> PartialEvent_default,
                   ret |-> Some(build_event(pe1))]
             ELSE IF i < Len(buf1) /\ buf1[i + 1] = LF
                  THEN scan(SubSeq(buf1, i + 2, Len(buf1)),
                            classify(pe1, trim_end_matches(
                                from_utf8_lossy(SubSeq(buf1, 1, i + 1)))),
                            0)
                  ELSE scan(buf1, pe1, i + 1)

parse_event_from_buffer(buffer, partial_event) == scan(buffer, partial_event, 0)

\* encode that writes the id line first.
encode_id_first(e) ==
    (IF e.id # None THEN id_colon \o space \o e.id[1] \o <<LF>> ELSE << >>)
    \o (IF e.event # None THEN event_colon \o space \o e.event[1] \o <<LF>> ELSE << >>)
    \o data_colon \o space \o e.data \o <<LF>>
    \o (IF e.retry # None
        THEN retry_colon \o space \o to_string(e.retry[1]) \o <<LF>> ELSE << >>)
    \o <<LF>>

\* Event::encode
encode(e) ==
    (IF e.event # None THEN event_colon \o space \o e.event[1] \o <<LF>> ELSE << >>)
    \o data_colon \o space \o e.data \o <<LF>>
    \o (IF e.id # None THEN id_colon \o space \o e.id[1] \o <<LF>> ELSE << >>)
    \o (IF e.retry # None
        THEN retry_colon \o space \o to_string(e.retry[1]) \o <<LF>> ELSE << >>)
    \o <<LF>>

\* SseStream::new
SseStream_new(body) ==
    [body |-> body, buffer |-> << >>, partial_event |-> PartialEvent_default]

\* <body::Error as Display>::fmt: BodyFrozen has a fixed text (written here
\* without the backquotes around take()), the other variants show the error
\* they wrap (named by its kind here).
Error_to_string(e) ==
    IF e = BodyFrozen THEN "Body was frozen,it may have been consumed by take()"
    ELSE e

\* What a poll of an SseStream returns: Some(Ok(event)), Some(Err(BodyError)),
\* None or Pending; Continue is the loop going round after a frame.
SomeEvent(event) == [tag |-> "Event", val |-> event, err |-> ""]
BodyError(e) == [tag |-> "Err", val |-> << >>, err |-> e]
Continue == [tag |-> "Continue", val |-> << >>, err |-> ""]

\* after_poll with an end-of-stream flush that clears the pending data only.
after_poll_keeps_fields(self, r) ==
    CASE r.ret.tag = "Ok" ->
            [self |-> [self EXCEPT !.body = r.self, !.buffer = @ \o r.ret.val],
             ret |-> Continue]
      [] r.ret.tag = "Err" ->
            [self |-> [self EXCEPT !.body = r.self], ret |-> BodyError(Error_to_string(r.ret.err))]
      [] r.ret.tag = "None" ->
            IF self.partial_event.data # << >>
            THEN [self |-> [self EXCEPT !.body = r.self,
                                        !.partial_event.data = << >>],
                  ret |-> SomeEvent(build_event(self.partial_event))]
            ELSE [self |-> [self EXCEPT !.body = r.self], ret |-> ReadyNone]
      [] OTHER -> [self |-> [self EXCEPT !.body = r.self], ret |-> Pending]

\* after_poll that reports a failed body as the end of the stream.
after_poll_hides_errors(self, r) ==
    CASE r.ret.tag = "Ok" ->
            [self |-> [self EXCEPT !.body = r.self, !.buffer = @ \o r.ret.val],
             ret |-> Continue]
      [] r.ret.tag \in {"Err", "None"} ->
            IF self.partial_event.data # << >>
            THEN [self |-> [self EXCEPT !.body = r.self,
                                        !.partial_event = PartialEvent_default],
                  ret |-> SomeEvent(build_event(self.partial_event))]
            ELSE [self |-> [self EXCEPT !.body = r.self], ret |-> ReadyNone]
      [] OTHER -> [self |-> [self EXCEPT !.body = r.self], ret |-> Pending]

\* The match on the body's poll in SseStream::poll_next: `self` after
\* parse_event_from_buffer found no event, r the poll (body after it, result).
after_poll(self, r) ==
    CASE r.ret.tag = "Ok" ->
            [self |-> [self EXCEPT !.body = r.self, !.buffer = @ \o r.ret.val],
             ret |-> Continue]
      [] r.ret.tag = "Err" ->
            [self |-> [self EXCEPT !.body = r.self], ret |-> BodyError(Error_to_string(r.ret.err))]
      [] r.ret.tag = "None" ->
            IF self.partial_event.data # << >>
            THEN [self |-> [self EXCEPT !.body = r.self,
                                        !.partial_event = PartialEvent_default],
                  ret |-> SomeEvent(build_event(self.partial_event))]
            ELSE [self |-> [self EXCEPT !.body = r.self], ret |-> ReadyNone]
      [] OTHER -> [self |-> [self EXCEPT !.body = r.self], ret |-> Pending]

\* The rest of a pass once parse_event_from_buffer has returned p: its event
\* is returned, or the body is polled.
after_parse(self, p, next) ==
    IF p.ret # None
    THEN [self |-> [self EXCEPT !.buffer = p.buffer, !.partial_event = p.partial_event],
          ret |-> SomeEvent(p.ret[1])]
    ELSE after_poll([self EXCEPT !.buffer = p.buffer, !.partial_event = p.partial_event],
                    Body_poll_next(IF self.body.kind = "HttpBody"
                                   THEN [self.body EXCEPT !.src = next]
                                   ELSE self.body))

\* One pass of the loop of SseStream::poll_next.  `next` is what the stream
\* behind an HttpBody body produces if this pass polls it: << >> (its end) or
\* one outcome.
loop_pass(self, next) ==
    after_parse(self, parse_event_from_buffer(self.buffer, self.partial_event), next)

\* Polling an SseStream over an in-memory body until it returns None or an
\* error: the events it yields on the way.
RECURSIVE collect(_, _)
collect_after(r, events) ==
    CASE r.ret.tag = "Event" -> collect(r.self, Append(events, r.ret.val))
      [] r.ret.tag = "Continue" -> collect(r.self, events)
      [] OTHER -> events

collect(self, events) == collect_after(loop_pass(self, << >>), events)

---------------------------------------------------------------------------
(* The Body state machine: a receiver `a` and a second body `b`.           *)

MaxPayload == 2     \* longest payload given to from_bytes
MaxItems == 2       \* most outcomes a reader or stream produces before its end
MaxHint == 1        \* largest length hint given to from_reader

ByteSet == {97, 255}    \* an ASCII byte and a byte that is never valid UTF-8

SeqsUpTo(S, n) == UNION {[1..k -> S] : k \in 0..n}

Payloads == SeqsUpTo(ByteSet, MaxPayload)

\* What one poll of a reader or stream can produce (Pending only delays).
ItemSet == {Ok(<<97>>), Err(IoError)}

Sources == SeqsUpTo(ItemSet, MaxItems)

HintSet == {None} \cup {Some(h) : h \in 0..MaxHint}

\* Every Body the constructors build from these inputs.
BodySet ==
    {empty, frozen}
    \cup {from_bytes(p) : p \in Payloads}
    \cup {from_stream(s) : s \in Sources}
    \cup {from_reader(s, h) : s \in Sources, h \in HintSet}

\* `new` is the argument of replace (Moved for the other operations).
Did(op, ret, new) == [op |-> op, ret |-> ret, new |-> new]

Unit == Ok(<< >>)

\* No decoding goes on while the Body operations are explored.
InitSse ==
    /\ sse = SseStream_new(empty)
    /\ wire = << >>
    /\ hist = << >>

InitBody ==
    /\ a \in BodySet
    /\ b \in BodySet
    /\ last = Did("new", Unit, Moved)
    /\ origin = "new"

Init == InitBody /\ InitSse

\* b = a.take()?  (on Err nothing is assigned)
Take ==
    /\ a.kind # "Moved"
    /\ LET r == take(a)
       IN  /\ a' = r.self
           /\ b' = IF r.ret.tag = "Ok" THEN r.taken ELSE b
           /\ last' = Did("take", r.ret, Moved)
           /\ origin' = IF r.ret.tag = "Ok" THEN "take" ELSE origin
    /\ UNCHANGED sseVars

\* a.freeze()
Freeze ==
    /\ a.kind # "Moved"
    /\ a' = freeze(a)
    /\ last' = Did("freeze", Unit, Moved)
    /\ origin' = "freeze"
    /\ UNCHANGED <<b, sseVars>>

\* a.swap(&mut b)
Swap ==
    /\ a.kind # "Moved"
    /\ b.kind # "Moved"
    /\ LET r == swap(a, b)
       IN  /\ a' = r.self
           /\ b' = r.body
           /\ last' = Did("swap", r.ret, Moved)
           /\ origin' = IF r.ret.tag = "Ok" THEN "swap" ELSE origin
    /\ UNCHANGED sseVars

\* b = a.replace(new)
Replace ==
    /\ a.kind # "Moved"
    /\ \E new \in BodySet :
          LET r == replace(a, new)
          IN  /\ a' = r.self
              /\ b' = r.ret
              /\ last' = Did("replace", Unit, new)
              /\ origin' = "new"
    /\ UNCHANGED sseVars

\* a.next().await, one poll that is ready
PollNext ==
    /\ a.kind # "Moved"
    /\ LET r == Body_poll_next(a)
       IN  /\ a' = r.self
           /\ last' = Did("poll_next", r.ret, Moved)
           /\ origin' = IF r.self = a THEN origin ELSE "poll_next"
    /\ UNCHANGED <<b, sseVars>>

\* a.len()
GetLen ==
    /\ a.kind # "Moved"
    /\ last' = Did("len", [tag |-> "Len", val |-> len(a), err |-> ""], Moved)
    /\ UNCHANGED <<a, b, origin, sseVars>>

\* a.into_bytes().await: a is moved into the call
IntoBytes ==
    /\ a.kind # "Moved"
    /\ a' = Moved
    /\ last' = Did("into_bytes", into_bytes(a).ret, Moved)
    /\ origin' = "moved"
    /\ UNCHANGED <<b, sseVars>>

\* a.into_string().await
IntoString ==
    /\ a.kind # "Moved"
    /\ a' = Moved
    /\ last' = Did("into_string", into_string(a).ret, Moved)
    /\ origin' = "moved"
    /\ UNCHANGED <<b, sseVars>>

\* a.as_bytes().await
AsBytes ==
    /\ a.kind # "Moved"
    /\ LET r == as_bytes(a)
       IN  /\ a' = r.self
           /\ last' = Did("as_bytes", r.ret, Moved)
           /\ origin' = IF is_frozen(a) THEN origin ELSE "as_bytes"
    /\ UNCHANGED <<b, sseVars>>

\* a.as_str().await
AsStr ==
    /\ a.kind # "Moved"
    /\ LET r == as_str(a)
       IN  /\ a' = r.self
           /\ last' = Did("as_str", r.ret, Moved)
           /\ origin' = IF is_frozen(a) THEN origin ELSE "as_bytes"
    /\ UNCHANGED <<b, sseVars>>

\* b.into_bytes().await: reading the second body (the one take() returned, ..)
OtherIntoBytes ==
    /\ b.kind # "Moved"
    /\ b' = Moved
    /\ last' = Did("other.into_bytes", into_bytes(b).ret, Moved)
    /\ UNCHANGED <<a, origin, sseVars>>

Next ==
    \/ Take
    \/ Freeze
    \/ Swap
    \/ Replace
    \/ PollNext
    \/ GetLen
    \/ IntoBytes
    \/ IntoString
    \/ AsBytes
    \/ AsStr
    \/ OtherIntoBytes

Spec == Init /\ [][Next]_vars

---------------------------------------------------------------------------
(* Reading one body to its end: bodies over readers and streams that        *)
(* deliver distinct chunks, fail at any position or are not ready at        *)
(* first, and the operations that read them.                                *)

MaxOutcomes == 3    \* most outcomes a reader or stream produces before its end

\* The chunks a source delivers: one byte of ASCII, or two bytes of which the
\* first is never valid UTF-8.
ChunkSet == {<<97>>, <<255, 98>>}

\* A reader's fill_buf hands out non-empty data until its end; a stream may
\* also yield an empty frame.
ReaderOutcomes == {Ok(c) : c \in ChunkSet} \cup {Err(IoError), Pending}
StreamOutcomes == ReaderOutcomes \cup {Ok(<< >>)}

\* The hints of HintSet and one that exceeds a single chunk.
ReaderHints == HintSet \cup {Some(MaxHint + 2)}

ReadSet ==
    {frozen}
    \cup {from_bytes(p) : p \in Payloads}
    \cup {from_stream(s) : s \in SeqsUpTo(StreamOutcomes, MaxOutcomes)}
    \cup {from_reader(s, h) : s \in SeqsUpTo(ReaderOutcomes, MaxOutcomes), h \in ReaderHints}

\* hist keeps the body as it was constructed.
InitRead ==
    /\ a \in ReadSet
    /\ b = Moved
    /\ last = Did("new", Unit, Moved)
    /\ origin = "new"
    /\ sse = SseStream_new(empty)
    /\ wire = << >>
    /\ hist = [created |-> a]

NextRead ==
    \/ PollNext
    \/ GetLen
    \/ IntoBytes
    \/ IntoString
    \/ AsBytes
    \/ AsStr

SpecRead == InitRead /\ [][NextRead]_vars

---------------------------------------------------------------------------
(* The SseStream state machine: a decoder over a body that delivers the     *)
(* input either as one in-memory payload or as a stream cut into chunks at  *)
(* any places.                                                              *)

MaxPieces == 2      \* most pieces an input is made of
MaxErrors == 1      \* most errors the stream behind the body reports

\* The pieces inputs are made of, each a list of lines: the blocks "data:",
\* "data: a", "retry:10", "id:1" and ": c" closed by a blank line, the single
\* lines "data:b" and "id:2", and a blank line.
PieceSet ==
    { <<data_colon, << >> >>,
      <<data_colon \o <<32, 97>>, << >> >>,
      <<retry_colon \o <<49, 48>>, << >> >>,
      <<id_colon \o <<49>>, << >> >>,
      <<<<58, 32, 99>>, << >> >>,
      <<data_colon \o <<98>> >>,
      <<id_colon \o <<50>> >>,
      << << >> >> }

\* The lines of a list of pieces.
RECURSIVE flatten(_)
flatten(pieces) ==
    IF pieces = << >> THEN << >> ELSE Head(pieces) \o flatten(Tail(pieces))

\* Every list of lines an input is written from.
LinesSet == {flatten(ps) : ps \in SeqsUpTo(PieceSet, MaxPieces)}

\* The lines, each followed by '\n'; the last one only if `terminated`.
RECURSIVE unlines(_, _)
unlines(ls, terminated) ==
    IF ls = << >> THEN << >>
    ELSE IF Len(ls) = 1 THEN ls[1] \o (IF terminated THEN <<LF>> ELSE << >>)
    ELSE ls[1] \o <<LF>> \o unlines(Tail(ls), terminated)

\* Events given to encode: data "a" or "a\nb", with and without id "1",
\* event type "m" and retry 5.
EventSet ==
    { Event(id, event, data, retry) :
        id \in {None, Some(<<49>>)}, event \in {None, Some(<<109>>)},
        data \in {<<97>>, <<97, LF, 98>>}, retry \in {None, Some(5)} }

\* input: the bytes the body delivers; lines, terminated: how they were
\* written; sent: the Event they encode, if any; events: the events yielded
\* so far; last: what the last pass returned; errors: body errors so far.
History(input, ls, terminated, sent) ==
    [input |-> input, lines |-> ls, terminated |-> terminated, sent |-> sent,
     events |-> << >>, last |-> "new", errors |-> 0]

\* SseStream::new over Body::from_bytes(input) or over a Body::from_stream
\* whose stream will deliver input in chunks.
Decoding(input, whole, h) ==
    /\ sse = SseStream_new(IF whole THEN from_bytes(input) ELSE from_stream(<< >>))
    /\ wire = IF whole THEN << >> ELSE input
    /\ hist = h

InitLines ==
    \E ls \in LinesSet, terminated \in BOOLEAN, whole \in BOOLEAN :
        Decoding(unlines(ls, terminated), whole,
                 History(unlines(ls, terminated), ls, terminated, None))

InitEncoded ==
    \E e \in EventSet, whole \in BOOLEAN :
        Decoding(encode(e), whole, History(encode(e), << >>, TRUE, Some(e)))

\* Data-less blocks a server sends to keep the connection alive, and the
\* single lines that follow them.
HeartbeatSet == { <<retry_colon \o <<49, 48>>, << >> >>, <<<<58, 32, 99>>, << >> >> }
FollowSet == SeqsUpTo({data_colon \o <<98>>, id_colon \o <<50>>}, MaxPieces)

InitHeartbeat ==
    \E head \in HeartbeatSet, ls \in FollowSet, terminated \in BOOLEAN, whole \in BOOLEAN :
        Decoding(unlines(head \o ls, terminated), whole,
                 History(unlines(head \o ls, terminated), head \o ls, terminated, None))

InitDecoder ==
    /\ a = empty
    /\ b = empty
    /\ last = Did("new", Unit, Moved)
    /\ origin = "new"
    /\ (InitLines \/ InitEncoded \/ InitHeartbeat)

\* A pass of the loop with the stream behind the body producing `next`, which
\* takes n bytes off the wire.
Returned(r, n) ==
    /\ sse' = r.self
    /\ wire' = SubSeq(wire, n + 1, Len(wire))
    /\ hist' = [hist EXCEPT
                  !.events = IF r.ret.tag = "Event" THEN Append(@, r.ret.val) ELSE @,
                  !.last = r.ret.tag,
                  !.errors = IF r.ret.tag = "Err" THEN @ + 1 ELSE @]
    /\ UNCHANGED bodyVars

Pass(next, n) == Returned(loop_pass(sse, next), n)

Parsed == parse_event_from_buffer(sse.buffer, sse.partial_event).ret # None

\* The buffer holds an event: poll_next returns it without polling the body.
SseYield ==
    /\ Parsed
    /\ Pass(<< >>, 0)

\* The body yields a frame: the payload of an in-memory body, or the next
\* chunk of the stream, any non-empty prefix of what is on the wire.
SseFrame ==
    /\ ~Parsed
    /\ \/ /\ sse.body.kind = "Once"
          /\ sse.body.bytes # << >>
          /\ Pass(<< >>, 0)
       \/ /\ sse.body.kind = "HttpBody"
          /\ \E n \in 1..Len(wire) : Pass(<<Ok(SubSeq(wire, 1, n))>>, n)

\* The stream behind the body fails.
SseBodyError ==
    /\ ~Parsed
    /\ sse.body.kind = "HttpBody"
    /\ hist.errors < MaxErrors
    /\ Pass(<<Err(IoError)>>, 0)

\* The stream behind the body is not ready.
SsePending ==
    /\ ~Parsed
    /\ sse.body.kind = "HttpBody"
    /\ wire # << >>
    /\ Pass(<<Pending>>, 0)

\* The body is at its end: the partial event is flushed, or None is returned.
SseEnd ==
    /\ ~Parsed
    /\ ~is_frozen(sse.body)
    /\ sse.body.kind = "Once" => sse.body.bytes = << >>
    /\ sse.body.kind = "HttpBody" => wire = << >>
    /\ Pass(<< >>, 0)

NextSse ==
    \/ SseYield
    \/ SseFrame
    \/ SseBodyError
    \/ SsePending
    \/ SseEnd

SpecSse == InitDecoder /\ [][NextSse]_vars

(***************************************************************************)
(* The decoder over one block of field lines of every kind, with "\n" and  *)
(* with "\r\n" line ends, and over a frozen body.                          *)
(***************************************************************************)
MaxFields == 1      \* most lines drawn from FieldLineSet in a block

\* Lines of every kind: data lines with no and with two spaces after the
\* colon and with no value ("data:x", "data:  x:", "data:", "data: "), a
\* data line with a byte that is not UTF-8, the invalid retry "retry:x", the
\* comments ":" and ": c", the unknown field "f:1", and "data:x" after a
\* space and after a byte order mark.
FieldLineSet ==
    { data_colon \o <<120>>,
      data_colon \o <<32, 32, 120, 58>>,
      data_colon,
      data_colon \o <<32>>,
      data_colon \o <<255>>,
      retry_colon \o <<120>>,
      colon,
      colon \o <<32, 99>>,
      <<102, 58, 49>>,
      space \o data_colon \o <<120>>,
      BOM \o data_colon \o <<120>> }

\* The blocks the lines are put in: after "data: d", before it, between
\* "retry:7" and it, all with "\n" line ends, and before it with "\r\n" line
\* ends.  A blank line closes the block.
ShapeSet ==
    { [before |-> <<data_colon \o <<32, 100>> >>, after |-> << >>, eol |-> <<LF>>],
      [before |-> << >>, after |-> <<data_colon \o <<32, 100>> >>, eol |-> <<LF>>],
      [before |-> <<retry_colon \o <<55>> >>, after |-> <<data_colon \o <<32, 100>> >>,
       eol |-> <<LF>>],
      [before |-> << >>, after |-> <<data_colon \o <<32, 100>> >>, eol |-> <<CR, LF>>] }

\* The lines, each followed by eol.
RECURSIVE write_lines(_, _)
write_lines(ls, eol) ==
    IF ls = << >> THEN << >> ELSE Head(ls) \o eol \o write_lines(Tail(ls), eol)

\* The lines of a block of shape sh around the lines fs.
block(sh, fs) == sh.before \o fs \o sh.after \o << << >> >>

InitBlock ==
    \E fs \in SeqsUpTo(FieldLineSet, MaxFields), sh \in ShapeSet, whole \in BOOLEAN :
        Decoding(write_lines(block(sh, fs), sh.eol), whole,
                 History(write_lines(block(sh, fs), sh.eol), block(sh, fs), TRUE, None))

\* SseStream::new over a body that was already consumed.
InitFrozen ==
    /\ sse = SseStream_new(frozen)
    /\ wire = << >>
    /\ hist = History(<< >>, << >>, TRUE, None)

InitFields ==
    /\ a = empty
    /\ b = empty
    /\ last = Did("new", Unit, Moved)
    /\ origin = "new"
    /\ (InitBlock \/ InitFrozen)

\* The body is frozen: its poll fails.
SseFrozen ==
    /\ ~Parsed
    /\ is_frozen(sse.body)
    /\ hist.errors < MaxErrors
    /\ Pass(<< >>, 0)

NextFields ==
    \/ SseYield
    \/ SseFrame
    \/ SseBodyError
    \/ SsePending
    \/ SseEnd
    \/ SseFrozen

SpecFields == InitFields /\ [][NextFields]_vars

(***************************************************************************)
(* Request and Response: a message `a` owning a Body, and a second body    *)
(* `b`.  Both types have the same body methods, each a call on self.body.  *)
(***************************************************************************)

\* Request::new: the body is Body::empty().
Request_new == [body |-> empty]

\* Response::new(status, body)
Response_new(body) == [body |-> body]

\* take_body(&mut self) -> Result<Body, BodyFrozen>
take_body(self) ==
    [self |-> [self EXCEPT !.body = take(self.body).self],
     taken |-> take(self.body).taken, ret |-> take(self.body).ret]

\* replace_body(&mut self, body) -> Body
replace_body(self, body) ==
    [self |-> [self EXCEPT !.body = replace(self.body, body).self],
     ret |-> replace(self.body, body).ret]

\* swap_body(&mut self, body: &mut Body) -> Result<(), BodyFrozen>
swap_body(self, body) ==
    [self |-> [self EXCEPT !.body = swap(self.body, body).self],
     body |-> swap(self.body, body).body, ret |-> swap(self.body, body).ret]

\* map_body(mut self, f) -> Self: self.body = f(self.body)
map_body(self, f) == [self EXCEPT !.body = f[self.body]]

\* Request::into_bytes that reads the body in place and leaves it there.
Request_into_bytes_in_place(self) ==
    [self |-> [self EXCEPT !.body = as_bytes(self.body).self],
     ret |-> as_bytes(self.body).ret]

\* Request::into_bytes / Response::into_bytes:
\* self.take_body()?.into_bytes().await
Request_into_bytes(self) ==
    IF take_body(self).ret.tag = "Err"
    THEN [self |-> take_body(self).self, ret |-> Err(BodyFrozen)]
    ELSE [self |-> take_body(self).self, ret |-> into_bytes(take_body(self).taken).ret]

\* Request::into_string / Response::into_string:
\* self.take_body()?.into_string().await
Request_into_string(self) ==
    IF take_body(self).ret.tag = "Err"
    THEN [self |-> take_body(self).self, ret |-> Err(BodyFrozen)]
    ELSE [self |-> take_body(self).self, ret |-> into_string(take_body(self).taken).ret]

\* The bodies handed to swap_body at the start.
OtherSet == {empty, frozen, from_bytes(<<97>>)}

InitMessage ==
    /\ a \in {Request_new} \cup {Response_new(body) : body \in BodySet}
    /\ b \in OtherSet
    /\ last = Did("new", Unit, Moved)
    /\ origin = "new"
    /\ InitSse

\* b = a.take_body()?
TakeBody ==
    /\ a' = take_body(a).self
    /\ b' = IF take_body(a).ret.tag = "Ok" THEN take_body(a).taken ELSE b
    /\ last' = Did("take_body", take_body(a).ret, Moved)
    /\ origin' = IF take_body(a).ret.tag = "Ok" THEN "take" ELSE origin
    /\ UNCHANGED sseVars

\* b = a.replace_body(new)
ReplaceBody ==
    /\ \E new \in BodySet :
          /\ a' = replace_body(a, new).self
          /\ b' = replace_body(a, new).ret
          /\ last' = Did("replace_body", Unit, new)
    /\ origin' = "new"
    /\ UNCHANGED sseVars

\* a.swap_body(&mut b)
SwapBody ==
    /\ a' = swap_body(a, b).self
    /\ b' = swap_body(a, b).body
    /\ last' = Did("swap_body", swap_body(a, b).ret, Moved)
    /\ origin' = IF swap_body(a, b).ret.tag = "Ok" THEN "swap" ELSE origin
    /\ UNCHANGED sseVars

\* a = a.map_body(f), f giving back the body it gets or a body of its own
MapBody ==
    /\ \E f \in [{a.body} -> BodySet \cup {a.body}] :
          /\ a' = map_body(a, f)
          /\ last' = Did("map_body", Unit, f[a.body])
    /\ origin' = "map"
    /\ UNCHANGED <<b, sseVars>>

\* a.into_bytes().await
MessageIntoBytes ==
    /\ a' = Request_into_bytes(a).self
    /\ last' = Did("into_bytes", Request_into_bytes(a).ret, Moved)
    /\ origin' = "take"
    /\ UNCHANGED <<b, sseVars>>

\* a.into_string().await
MessageIntoString ==
    /\ a' = Request_into_string(a).self
    /\ last' = Did("into_string", Request_into_string(a).ret, Moved)
    /\ origin' = "take"
    /\ UNCHANGED <<b, sseVars>>

NextMessage ==
    \/ TakeBody
    \/ ReplaceBody
    \/ SwapBody
    \/ MapBody
    \/ MessageIntoBytes
    \/ MessageIntoString

SpecMessage == InitMessage /\ [][NextMessage]_vars

(***************************************************************************)
(* Error: a boxed HttpError `a`, built from the error `b`.  A value is a   *)
(* record of its concrete type (what its TypeId stands for), the status it *)
(* holds, the value it wraps and its own content.                          *)
(***************************************************************************)
SERVICE_UNAVAILABLE == 503
NOT_FOUND == 404
FORBIDDEN == 403

Value(type, status, inner, content) ==
    [type |-> type, status |-> status, inner |-> inner, content |-> content]

\* std::io::Error::new(kind, ..) and core::fmt::Error: errors that are not
\* HttpError.
io_Error(kind) == Value(<<"std::io::Error">>, None, None, kind)
fmt_Error == Value(<<"core::fmt::Error">>, None, None, "")

\* A type of the caller that implements HttpError.
ApiError(status) == Value(<<"ApiError">>, Some(status), None, "")

\* struct MsgError<M> { msg }
MsgError(msg) == Value(<<"MsgError", "&str">>, None, None, msg)

\* struct WithStatus<E> { status, error: Box<E> }
WithStatus(status, error) ==
    Value(<<"WithStatus">> \o error.type, Some(status), Some(error), "")

\* struct BoxedCoreError(Box<dyn core::error::Error + Send + Sync>)
BoxedCoreError(err) == Value(<<"BoxedCoreError">>, None, Some(err), "")

\* struct OverrideStatus { status, inner: Box<dyn HttpError> }
OverrideStatus(status, inner) == Value(<<"OverrideStatus">>, Some(status), Some(inner), "")

\* The TypeId of the value behind a trait object: its concrete type.
type_id(value) == value.type

\* <dyn core::error::Error>::downcast_ref::<T>: the value, if T is its
\* concrete type.
dyn_downcast_ref(value, T) == IF type_id(value) = T THEN Some(value) ELSE None

\* StatusCode::try_from(u16)
try_into(status) ==
    IF status \in 100..999 THEN Ok(status) ELSE Err("InvalidStatusCode")

\* An Error that was moved out of, and the program after a panic.
Consumed == [error |-> Value(<<"moved">>, None, None, "")]
Panicked == [error |-> Value(<<"panic">>, None, None, "Invalid status code")]

\* Error::from_http_error
from_http_error(error) == [error |-> error]

\* Error::with_status
with_status(error, status) == from_http_error(WithStatus(status, error))

\* Error::new(error, status): status.try_into().expect("Invalid status code")
Error_new(error, status) ==
    IF try_into(status).tag = "Ok" THEN with_status(error, try_into(status).val)
    ELSE Panicked

\* Error::msg
Error_msg(msg) == with_status(MsgError(msg), SERVICE_UNAVAILABLE)

\* impl<E: HttpError> From<E> for Error
Error_from(error) == [error |-> error]

\* Error::status: HttpError::status of the boxed value (WithStatus and
\* OverrideStatus return their status field).
Error_status(self) == self.error.status[1]

\* Error::into_inner
into_inner(self) == self.error

\* Error::set_status
set_status(self, status) ==
    IF try_into(status).tag = "Ok"
    THEN from_http_error(OverrideStatus(try_into(status).val, into_inner(self)))
    ELSE Panicked

\* Error::downcast::<E>: Ok(the boxed value) or Err(an Error around it)
downcast(self, E) ==
    IF type_id(self.error) = E THEN Ok(self.error)
    ELSE [tag |-> "Err", val |-> with_status(BoxedCoreError(self.error), Error_status(self)),
          err |-> ""]

\* Error::downcast_ref::<E>: the boxed value seen as dyn core::error::Error,
\* then <dyn Error>::downcast_ref
downcast_ref(self, E) == dyn_downcast_ref(self.error, E)

MaxWraps == 2       \* most set_status and failed downcast calls on an Error

\* The errors given to Error::new, the statuses given with them, and the
\* types a caller can name in a downcast.
CoreErrorSet == {io_Error("NotFound"), io_Error("PermissionDenied"), fmt_Error}
StatusSet == {NOT_FOUND, FORBIDDEN}
StatusInputs == StatusSet \cup {99}
TypeSet == {<<"std::io::Error">>, <<"core::fmt::Error">>, <<"ApiError">>}

\* How the Error was built: constructor, status given, wraps so far.
Built(how, status) == [how |-> how, status |-> status, wraps |-> 0]

InitError ==
    /\ \/ \E e \in CoreErrorSet, status \in StatusSet :
            a = Error_new(e, status) /\ b = e /\ hist = Built("new", status)
       \/ /\ a = Error_msg("Test error")
          /\ b = MsgError("Test error")
          /\ hist = Built("msg", SERVICE_UNAVAILABLE)
       \/ \E status \in StatusSet :
            a = Error_from(ApiError(status)) /\ b = ApiError(status)
               /\ hist = Built("from", status)
    /\ last = Did("new", Unit, Moved)
    /\ origin = "new"
    /\ sse = SseStream_new(empty)
    /\ wire = << >>

Usable == a # Consumed /\ a # Panicked

\* a.status()
Status ==
    /\ Usable
    /\ last' = Did("status", Some(Error_status(a)), Moved)
    /\ UNCHANGED <<a, b, origin, sseVars>>

\* a.downcast_ref::<T>()
DowncastRef ==
    /\ Usable
    /\ \E T \in TypeSet : last' = Did("downcast_ref", downcast_ref(a, T), T)
    /\ UNCHANGED <<a, b, origin, sseVars>>

\* a = a.set_status(status)
SetStatus ==
    /\ Usable
    /\ hist.wraps < MaxWraps
    /\ \E status \in StatusInputs :
          /\ a' = set_status(a, status)
          /\ last' = Did("set_status", try_into(status), Moved)
    /\ origin' = "set_status"
    /\ hist' = [hist EXCEPT !.wraps = @ + 1]
    /\ UNCHANGED <<b, sse, wire>>

\* match a.downcast::<T>() { Ok(boxed) => .., Err(error) => a = error }
Downcast ==
    /\ Usable
    /\ hist.wraps < MaxWraps
    /\ \E T \in TypeSet :
          /\ a' = IF downcast(a, T).tag = "Ok" THEN Consumed ELSE downcast(a, T).val
          /\ last' = Did("downcast", downcast(a, T), T)
    /\ origin' = "downcast"
    /\ hist' = [hist EXCEPT !.wraps = @ + 1]
    /\ UNCHANGED <<b, sse, wire>>

NextError ==
    \/ Status
    \/ DowncastRef
    \/ SetStatus
    \/ Downcast

SpecError == InitError /\ [][NextError]_vars

(***************************************************************************)
(* Body::into_reader: enum IntoAsyncRead                                   *)
(*   Once(Reader<Bytes>) | Reader(BoxBufReader)                            *)
(*   | Stream { stream: Option<BoxHttpBody>, buf: Reader<Bytes> } | Freeze. *)
(* One record shape serves the four variants: `buf` is what is buffered    *)
(* and not yet read, `stream` the reader or stream behind it (a Body       *)
(* record, for its `src`, `done` and `late`), None once it was dropped.    *)
(***************************************************************************)
\* A frame that carries trailers: Frame::into_data() gives Err for it.
Trailers == [tag |-> "Trailers", val |-> << >>, err |-> ""]

\* io::Error::other(e)
io_Error_other(e) == "io::Error::other(" \o e \o ")"

\* IntoAsyncRead::new(body)
IntoAsyncRead_new(body) ==
    CASE body.kind = "Once" -> [kind |-> "Once", stream |-> None, buf |-> body.bytes]
      [] body.kind = "Reader" -> [kind |-> "Reader", stream |-> Some(body), buf |-> << >>]
      [] body.kind = "HttpBody" -> [kind |-> "Stream", stream |-> Some(body), buf |-> << >>]
      [] OTHER -> [kind |-> "Freeze", stream |-> None, buf |-> << >>]

\* Body::into_reader(self)
into_reader(self) == IntoAsyncRead_new(self)

\* Mutant of poll_data: the stream is polled although data is buffered.
RECURSIVE poll_data_overwrites(_)
poll_data_overwrites(self) ==
    IF self.stream = None
    THEN [self |-> self, ret |-> Unit]
    ELSE LET r == poll_source(self.stream[1])
             polled == [self EXCEPT !.stream = Some(r.self)]
         IN  CASE r.ret.tag = "Pending" -> [self |-> polled, ret |-> Pending]
               [] r.ret.tag = "Err" ->
                     [self |-> polled, ret |-> Err(io_Error_other(r.ret.err))]
               [] r.ret.tag = "Trailers" -> [self |-> polled, ret |-> Unit]
               [] r.ret.tag = "Ok" ->
                     IF r.ret.val = << >>
                     THEN poll_data_overwrites(polled)
                     ELSE [self |-> [polled EXCEPT !.buf = r.ret.val], ret |-> Unit]
               [] OTHER -> [self |-> [self EXCEPT !.stream = None], ret |-> Unit]

\* poll_data(optional_stream, buf, cx): nothing to do without a stream or with
\* data buffered; else one poll_frame: a data frame refills buf (an empty one
\* is skipped), the end of the stream drops the stream.
RECURSIVE poll_data(_)
poll_data(self) ==
    IF self.stream = None
    THEN [self |-> self, ret |-> Unit]
    ELSE IF self.buf # << >>
    THEN [self |-> self, ret |-> Unit]
    ELSE LET r == poll_source(self.stream[1])
             polled == [self EXCEPT !.stream = Some(r.self)]
         IN  CASE r.ret.tag = "Pending" -> [self |-> polled, ret |-> Pending]
               [] r.ret.tag = "Err" ->
                     [self |-> polled, ret |-> Err(io_Error_other(r.ret.err))]
               [] r.ret.tag = "Trailers" -> [self |-> polled, ret |-> Unit]
               [] r.ret.tag = "Ok" ->
                     IF r.ret.val = << >>
                     THEN poll_data(polled)
                     ELSE [self |-> [polled EXCEPT !.buf = r.ret.val], ret |-> Unit]
               [] OTHER -> [self |-> [self EXCEPT !.stream = None], ret |-> Unit]

\* poll_fill_buf of the boxed reader of a Reader body: its buffered data, or
\* what its source produces next (an io::Error as it is).
reader_fill_buf(self) ==
    IF self.buf # << >>
    THEN [self |-> self, ret |-> Unit]
    ELSE LET r == poll_source(self.stream[1])
             polled == [self EXCEPT !.stream = Some(r.self)]
         IN  CASE r.ret.tag = "Ok" -> [self |-> [polled EXCEPT !.buf = r.ret.val], ret |-> Unit]
               [] r.ret.tag = "None" -> [self |-> polled, ret |-> Unit]
               [] OTHER -> [self |-> polled, ret |-> r.ret]

\* What stands before buf.read / buf.fill_buf in the four match arms.
filled(self) ==
    CASE self.kind = "Once" -> [self |-> self, ret |-> Unit]
      [] self.kind = "Reader" -> reader_fill_buf(self)
      [] self.kind = "Stream" -> poll_data(self)
      [] OTHER -> [self |-> self, ret |-> Err(io_Error_other(BodyFrozen))]

\* <Reader<Bytes> as Read>::read: the first min(n, len) bytes leave the buffer.
read(buf, n) ==
    LET k == IF n < Len(buf) THEN n ELSE Len(buf)
    IN  [buf |-> SubSeq(buf, k + 1, Len(buf)), ret |-> SubSeq(buf, 1, k)]

\* <IntoAsyncRead as AsyncRead>::poll_read with a read_buf of n bytes: the
\* reader after it and Ok(the bytes copied into read_buf), Err or Pending.
poll_read(self, n) ==
    LET f == filled(self)
    IN  IF f.ret.tag = "Ok"
        THEN [self |-> [f.self EXCEPT !.buf = read(f.self.buf, n).buf],
              ret |-> Ok(read(f.self.buf, n).ret)]
        ELSE f

\* <IntoAsyncRead as AsyncBufRead>::poll_fill_buf: Ok(the buffered bytes).
poll_fill_buf(self) ==
    LET f == filled(self)
    IN  IF f.ret.tag = "Ok" THEN [self |-> f.self, ret |-> Ok(f.self.buf)] ELSE f

\* <IntoAsyncRead as AsyncBufRead>::consume(amt)
consume(self, amt) ==
    IF self.kind = "Freeze" THEN self
    ELSE [self EXCEPT !.buf = SubSeq(@, amt + 1, Len(@))]

MaxRead == 2        \* longest read_buf given to poll_read

\* The bodies turned into readers: frozen, in memory, over a stream (whose
\* frames may be empty or carry trailers) and over a reader.
ReaderBodySet ==
    {frozen}
    \cup {from_bytes(p) : p \in Payloads}
    \cup {from_stream(s) : s \in SeqsUpTo(StreamOutcomes \cup {Trailers}, MaxOutcomes)}
    \cup {from_reader(s, None) : s \in SeqsUpTo(ReaderOutcomes, MaxOutcomes)}

\* a is the reader; hist keeps the body it was made of and the bytes read or
\* consumed so far.
InitReader ==
    /\ \E body \in ReaderBodySet :
          /\ a = into_reader(body)
          /\ hist = [created |-> body, read |-> << >>]
    /\ b = Moved
    /\ last = Did("into_reader", Unit, Moved)
    /\ origin = "new"
    /\ sse = SseStream_new(empty)
    /\ wire = << >>

\* reader.read(&mut read_buf).await, polled once
PollRead ==
    \E n \in 1..MaxRead :
        LET r == poll_read(a, n)
        IN  /\ a' = r.self
            /\ last' = Did("poll_read", r.ret, Moved)
            /\ hist' = [hist EXCEPT !.read = @ \o r.ret.val]
            /\ UNCHANGED <<b, origin, sse, wire>>

\* reader.fill_buf().await, polled once
PollFillBuf ==
    LET r == poll_fill_buf(a)
    IN  /\ a' = r.self
        /\ last' = Did("poll_fill_buf", r.ret, Moved)
        /\ UNCHANGED <<b, origin, sse, wire, hist>>

\* reader.consume(amt), for an amt within what fill_buf returned
Consume ==
    /\ last.op = "poll_fill_buf" /\ last.ret.tag = "Ok"
    /\ \E amt \in 1..Len(last.ret.val) :
          /\ a' = consume(a, amt)
          /\ last' = Did("consume", Unit, Moved)
          /\ hist' = [hist EXCEPT !.read = @ \o SubSeq(last.ret.val, 1, amt)]
    /\ UNCHANGED <<b, origin, sse, wire>>

NextReader ==
    \/ PollRead
    \/ PollFillBuf
    \/ Consume

SpecReader == InitReader /\ [][NextReader]_vars

(***************************************************************************)
(* Bodies with a MIME type and the conversions that read them in place:    *)
(* as_bytes, as_str, into_json and into_form.  The value serialized or     *)
(* deserialized is a u64 (JSON) or a struct with one u64 field k (form).   *)
(***************************************************************************)
APPLICATION_JSON == "application/json"
APPLICATION_WWW_FORM_URLENCODED == "application/x-www-form-urlencoded"
TEXT_PLAIN_UTF_8 == "text/plain; charset=utf-8"

JsonError == "JsonError"
DeserializeForm == "DeserializeForm"

key_equals == <<107, 61>>       \* "k="

\* Body::from_text
from_text(str) == MkBody(Some(TEXT_PLAIN_UTF_8), "Once", str, << >>, None)

\* Body::with_mime
with_mime(self, m) == [self EXCEPT !.mime = Some(m)]

\* Body::from_json(value): serde_json::to_string of a u64 is its digits.
from_json(value) == [from_bytes(to_string(value)) EXCEPT !.mime = Some(APPLICATION_JSON)]

\* Body::from_form(value): serde_urlencoded::to_string of { k: value }.
from_form(value) ==
    [from_bytes(key_equals \o to_string(value)) EXCEPT
        !.mime = Some(APPLICATION_WWW_FORM_URLENCODED)]

\* A JSON number that is a u64: digits, no sign, no leading zero.
json_number(s) ==
    /\ s # << >> /\ Len(s) < 10
    /\ \A k \in 1..Len(s) : s[k] \in ZERO..(ZERO + 9)
    /\ Len(s) > 1 => s[1] # ZERO

\* serde_json::from_slice::<u64>; the value stands in a one-element tuple.
json_from_slice(bytes) ==
    IF json_number(bytes) THEN Ok(<<digits_value(bytes, 0)>>) ELSE Err(JsonError)

\* serde_urlencoded::from_bytes::<{ k: u64 }>
form_from_bytes(bytes) ==
    LET v == strip_prefix(bytes, key_equals)
    IN  IF v # None /\ parse_u64(v[1]) # None
        THEN Ok(<<parse_u64(v[1])[1]>>)
        ELSE Err(DeserializeForm)

\* Body::into_json(&mut self)
into_json(self) ==
    LET r == as_bytes(self)
    IN  IF r.ret.tag = "Ok" THEN [self |-> r.self, ret |-> json_from_slice(r.ret.val)] ELSE r

\* Body::into_form(&mut self)
into_form(self) ==
    LET r == as_bytes(self)
    IN  IF r.ret.tag = "Ok" THEN [self |-> r.self, ret |-> form_from_bytes(r.ret.val)] ELSE r

MaxValue == 10      \* largest value serialized by from_json and from_form

\* What a stream delivers here: the digit "1", the text "k=", or an error.
ConvertItems == {Ok(<<ZERO + 1>>), Ok(key_equals), Err(IoError)}

ConvertSet ==
    {from_json(n) : n \in 0..MaxValue}
    \cup {from_form(n) : n \in 0..MaxValue}
    \cup {from_bytes(p) : p \in Payloads}
    \cup {from_text(p) : p \in {q \in Payloads : valid_utf8(q)}}
    \cup {from_stream(s) : s \in SeqsUpTo(ConvertItems, MaxItems)}
    \cup {with_mime(from_stream(s), APPLICATION_JSON) : s \in SeqsUpTo(ConvertItems, MaxItems)}

InitConvert ==
    /\ a \in ConvertSet
    /\ b = Moved
    /\ last = Did("new", Unit, Moved)
    /\ origin = "new"
    /\ sse = SseStream_new(empty)
    /\ wire = << >>
    /\ hist = [created |-> a]

\* a.into_json::<u64>().await
IntoJson ==
    /\ a.kind # "Moved"
    /\ LET r == into_json(a)
       IN  /\ a' = r.self
           /\ last' = Did("into_json", r.ret, Moved)
           /\ origin' = IF is_frozen(a) THEN origin ELSE "as_bytes"
    /\ UNCHANGED <<b, sseVars>>

\* a.into_form::<{ k: u64 }>().await
IntoForm ==
    /\ a.kind # "Moved"
    /\ LET r == into_form(a)
       IN  /\ a' = r.self
           /\ last' = Did("into_form", r.ret, Moved)
           /\ origin' = IF is_frozen(a) THEN origin ELSE "as_bytes"
    /\ UNCHANGED <<b, sseVars>>

NextConvert ==
    \/ AsBytes
    \/ AsStr
    \/ IntoJson
    \/ IntoForm

SpecConvert == InitConvert /\ [][NextConvert]_vars

---------------------------------------------------------------------------
(* Claims about Body, checked under Spec.  A step's operation is last'.op;  *)
(* unprimed a and b are the operands before it, primed ones after it.       *)

IsErr(ret, e) == ret.tag = "Err" /\ ret.err = e

Reads == {"into_bytes", "into_string", "as_bytes", "as_str", "poll_next"}

\* C5: take() on a non-frozen body returns Ok with a body holding the original
\* content and leaves the receiver frozen; while the receiver is as take() left
\* it, every read of it and a second take() fail with BodyFrozen; the returned
\* body, read next, still yields the original bytes.
C5_TakeLeavesFrozen ==
    [][ /\ (last'.op = "take" /\ ~is_frozen(a)) =>
              /\ last'.ret = Unit
              /\ b' = a
              /\ a' = frozen
        /\ (origin = "take" /\ last'.op \in Reads \cup {"take"}) =>
              /\ IsErr(last'.ret, BodyFrozen)
              /\ a'.kind # "Moved" => (is_frozen(a') /\ origin' = "take")
        /\ (last.op = "take" /\ last.ret = Unit /\ b.kind = "Once"
              /\ last'.op = "other.into_bytes") =>
              last'.ret = Ok(b.bytes)
      ]_vars

\* The returned body holds a payload and the receiver is frozen by take().
C5_Witness ==
    /\ last.op = "take" /\ last.ret = Unit
    /\ origin = "take" /\ is_frozen(a)
    /\ b = from_bytes(<<97, 255>>)

\* C6: a frozen body, however it came to be frozen, answers every read with
\* BodyFrozen: into_bytes, into_string, as_bytes and as_str return
\* Err(BodyFrozen), a poll returns Some(Err(BodyFrozen)) (never None, never
\* data), and the body is still frozen afterwards, so the next read fails too.
C6_FrozenReadsFail ==
    [][ /\ (is_frozen(a) /\ last'.op \in Reads) =>
              /\ IsErr(last'.ret, BodyFrozen)
              /\ last'.op \in {"as_bytes", "as_str", "poll_next"} => is_frozen(a')
        /\ (is_frozen(b) /\ last'.op = "other.into_bytes") =>
              IsErr(last'.ret, BodyFrozen)
      ]_vars

\* A body frozen by freeze() has been polled and has answered BodyFrozen.
C6_Witness ==
    /\ origin = "freeze" /\ is_frozen(a)
    /\ last.op = "poll_next" /\ IsErr(last.ret, BodyFrozen)

\* C7 as claimed: a frozen body becomes non-frozen only by replace() called
\* on it.  (b = a.take() and b = a.replace(..) put another body in the
\* variable b; they are not operations on the body b held.)
C7_FrozenUntilReplace ==
    [][ /\ (is_frozen(a) /\ a'.kind # "Moved" /\ ~is_frozen(a')) =>
              last'.op = "replace"
        /\ (is_frozen(b) /\ b'.kind # "Moved" /\ ~is_frozen(b')
              /\ last'.op \notin {"take", "replace"}) =>
              FALSE
      ]_vars

\* C7 amended: a frozen body becomes non-frozen only by replace() called on it,
\* or by being the argument of a swap() whose receiver is not frozen.
C7_FrozenUntilReplaceOrSwapArg ==
    [][ /\ (is_frozen(a) /\ a'.kind # "Moved" /\ ~is_frozen(a')) =>
              last'.op = "replace"
        /\ (is_frozen(b) /\ b'.kind # "Moved" /\ ~is_frozen(b')
              /\ last'.op \notin {"take", "replace"}) =>
              (last'.op = "swap" /\ last'.ret = Unit /\ ~is_frozen(a) /\ b' = a)
      ]_vars

\* A frozen receiver has gone through a failed take and is frozen still.
C7_Witness ==
    /\ origin = "freeze" /\ is_frozen(a)
    /\ last.op = "take" /\ IsErr(last.ret, BodyFrozen)

\* C8: a.swap(b) returns Err(BodyFrozen) exactly when a is frozen, whatever b
\* is; on Err neither body changes; on Ok the two have exchanged contents.
C8_Swap ==
    [][ last'.op = "swap" =>
          /\ IsErr(last'.ret, BodyFrozen) <=> is_frozen(a)
          /\ last'.ret.tag = "Err" => (a' = a /\ b' = b)
          /\ last'.ret.tag = "Ok" => (last'.ret = Unit /\ a' = b /\ b' = a)
      ]_vars

\* A successful swap has left the receiver frozen: the argument was frozen.
C8_Witness ==
    /\ last.op = "swap" /\ last.ret = Unit
    /\ is_frozen(a) /\ b.kind = "Reader"

\* C9: replace(new) never fails: whatever the receiver is, frozen included, it
\* then holds new and the body returned is the receiver as it was.
C9_Replace ==
    [][ last'.op = "replace" => (last'.ret = Unit /\ a' = last'.new /\ b' = a) ]_vars

\* replace() on a frozen receiver has installed a payload and returned a
\* frozen body.
C9_Witness ==
    /\ last.op = "replace"
    /\ a = from_bytes(<<97>>)
    /\ is_frozen(b)

\* C10: for every payload P, the empty one included, from_bytes(P).into_bytes()
\* is Ok(P) and len() of the fresh body is Some(|P|).
C10_FromBytesRoundTrip ==
    [][ \A p \in Payloads :
          a = from_bytes(p) =>
            /\ last'.op = "into_bytes" => last'.ret = Ok(p)
            /\ last'.op = "len" => last'.ret.val = Some(Len(p))
      ]_vars

\* A fresh two-byte body has been read back whole.
C10_Witness ==
    /\ last.op = "into_bytes" /\ origin = "moved"
    /\ last.ret = Ok(<<255, 97>>)

---------------------------------------------------------------------------
(* Claims about reading a body to its end, checked under SpecRead.          *)

\* The source behind a body reports an error before its end.
fails(src) == \E k \in 1..Len(src) : src[k].tag = "Err"

\* The chunks a source delivers before its end, one after the other.
RECURSIVE delivered(_)
delivered(src) ==
    IF src = << >> THEN << >>
    ELSE (IF Head(src).tag = "Ok" THEN Head(src).val ELSE << >>) \o delivered(Tail(src))

\* C11: into_bytes() of a stream-backed body whose source yields chunks
\* c1..cn (n >= 0) without error and then ends returns c1 ++ .. ++ cn in source
\* order: c1 itself when n = 1, the empty byte string when n = 0.
C11_StreamConcat ==
    [][ (a.kind = "HttpBody" /\ ~fails(a.src) /\ last'.op = "into_bytes") =>
            last'.ret = Ok(delivered(a.src))
      ]_vars

\* A stream of three chunks has been read whole, the chunks in source order.
C11_Witness ==
    /\ last.op = "into_bytes" /\ origin = "moved"
    /\ hist.created = from_stream(<<Ok(<<97>>), Ok(<<255, 98>>), Ok(<<97>>)>>)
    /\ last.ret = Ok(<<97, 255, 98, 97>>)

\* C12: if the reader or stream behind a body reports an error at any
\* position, into_bytes() and into_string() return that error and no data.
C12_ErrorsSurface ==
    [][ (a.kind \in {"Reader", "HttpBody"} /\ fails(a.src)
           /\ last'.op \in {"into_bytes", "into_string"}) =>
            (IsErr(last'.ret, IoError) /\ last'.ret.val = << >>)
      ]_vars

\* A stream that failed after two chunks has been read: the error came back.
C12_Witness ==
    /\ last.op = "into_bytes" /\ origin = "moved"
    /\ hist.created = from_stream(<<Ok(<<97>>), Ok(<<97>>), Err(IoError)>>)
    /\ IsErr(last.ret, IoError)

\* C13: into_string() and as_str() return Ok exactly when the aggregated bytes
\* are valid UTF-8 (here: hold no byte 0xFF), the text then being those bytes
\* unchanged, and a Utf8 error otherwise; other errors pass through.
C13_StrictUtf8 ==
    [][ /\ last'.op = "into_string" =>
              LET r == into_bytes(a).ret
              IN  IF r.tag = "Ok"
                  THEN IF \A k \in 1..Len(r.val) : r.val[k] # 255
                       THEN last'.ret = r
                       ELSE IsErr(last'.ret, Utf8Error)
                  ELSE last'.ret = r
        /\ last'.op = "as_str" =>
              LET r == as_bytes(a).ret
              IN  IF r.tag = "Ok"
                  THEN IF \A k \in 1..Len(r.val) : r.val[k] # 255
                       THEN last'.ret = r
                       ELSE IsErr(last'.ret, Utf8Error)
                  ELSE last'.ret = r
      ]_vars

\* A reader that delivered an invalid byte has been read as a string.
C13_Witness ==
    /\ last.op = "into_string" /\ IsErr(last.ret, Utf8Error)
    /\ hist.created.kind = "Reader"

\* C14: a successful as_bytes() on a non-frozen body of any variant leaves the
\* body in memory (Once), holding the complete content, not frozen and without
\* a source; as_bytes()/as_str() on a body in memory return its bytes and
\* leave it in memory with the same bytes.
C14_AsBytesCaches ==
    [][ /\ (last'.op = "as_bytes" /\ last'.ret.tag = "Ok") =>
              /\ last'.ret = into_bytes(a).ret
              /\ a'.kind = "Once" /\ a'.bytes = last'.ret.val
              /\ a'.src = << >> /\ ~is_frozen(a')
        /\ (a.kind = "Once" /\ last'.op \in {"as_bytes", "as_str"}) =>
              /\ a'.kind = "Once" /\ a'.bytes = a.bytes /\ a'.src = << >>
              /\ last'.ret = Ok(a.bytes) \/ (last'.op = "as_str" /\ IsErr(last'.ret, Utf8Error))
      ]_vars

\* A stream-backed body has been read by as_bytes() and is now in memory.
C14_Witness ==
    /\ last.op = "as_bytes" /\ last.ret = Ok(<<97, 255, 98>>)
    /\ hist.created.kind = "HttpBody"
    /\ a.kind = "Once" /\ a.bytes = <<97, 255, 98>>

\* The bytes of the chunks in src.
pulled(created, now) == Len(delivered(created.src)) - Len(delivered(now.src))

C16_PollOnce ==
    [][ (a.kind = "Once" /\ last'.op = "poll_next") =>
            /\ IF a.bytes # << >>
               THEN last'.ret = Ok(a.bytes) /\ a' = [a EXCEPT !.bytes = << >>]
               ELSE last'.ret = ReadyNone /\ a' = a
            /\ ~is_frozen(a')
      ]_vars

\* A two-byte payload was handed out and the body now answers None.
C16_Witness ==
    /\ hist.created = from_bytes(<<97, 255>>)
    /\ a = [hist.created EXCEPT !.bytes = << >>]
    /\ last.op = "poll_next" /\ last.ret = ReadyNone

\* C17: into_bytes() of a reader-backed body whose reader does not fail
\* returns all bytes the reader delivers, in order, whatever the length hint,
\* and stops at the reader's end: the reader is not polled again after it.
C17_ReaderToEnd ==
    [][ (a.kind = "Reader" /\ ~fails(a.src) /\ last'.op = "into_bytes") =>
            /\ last'.ret = Ok(delivered(a.src))
            /\ ~a.done => (into_bytes(a).self.done /\ ~into_bytes(a).self.late)
      ]_vars

\* A reader with hint 0 has been read to its end: three bytes came back.
C17_Witness ==
    /\ last.op = "into_bytes" /\ origin = "moved"
    /\ hist.created.kind = "Reader" /\ hist.created.length = Some(0)
    /\ last.ret = Ok(<<97, 255, 98>>)


\* C33: into_bytes() of a stream-backed body never polls the stream again
\* after the stream has reported its end, however many chunks the stream
\* yields (none included).
C33_StreamNotPolledAfterEnd ==
    [][ (a.kind = "HttpBody" /\ ~a.done /\ last'.op = "into_bytes") =>
            ~into_bytes(a).self.late
      ]_vars


\* C36: as_bytes() is not failure-atomic.  When the reader or stream fails
\* during as_bytes() or as_str(), the body is left frozen: its content is
\* gone and every later read answers BodyFrozen, not the original error.
\* When as_str() fails only because the bytes are not UTF-8, the body keeps
\* the bytes it has read and as_bytes() then returns them.
C36_NotFailureAtomic ==
    [][ /\ (last'.op \in {"as_bytes", "as_str"} /\ IsErr(last'.ret, IoError)) =>
              /\ is_frozen(a')
              /\ a'.src = << >> /\ a'.bytes = << >>
              /\ IsErr(as_bytes(a').ret, BodyFrozen)
              /\ IsErr(as_str(a').ret, BodyFrozen)
              /\ IsErr(into_bytes(a').ret, BodyFrozen)
              /\ IsErr(into_string(a').ret, BodyFrozen)
              /\ IsErr(Body_poll_next(a').ret, BodyFrozen)
        /\ (last'.op = "as_str" /\ IsErr(last'.ret, Utf8Error)) =>
              /\ a'.kind = "Once"
              /\ a'.bytes = (IF a.kind = "Once" THEN a.bytes ELSE delivered(a.src))
              /\ as_bytes(a').ret = Ok(a'.bytes)
              /\ as_bytes(a').self = a'
      ]_vars

\* A stream that fails after its first chunk was read with as_bytes(), which
\* failed; the next as_bytes() answered BodyFrozen.
C36_Witness ==
    /\ hist.created = from_stream(<<Ok(<<97>>), Err(IoError)>>)
    /\ is_frozen(a)
    /\ last.op = "as_bytes" /\ IsErr(last.ret, BodyFrozen)

---------------------------------------------------------------------------
(* Claims about the SSE codec, checked under SpecSse.                      *)

\* The decoder has returned None and the body never failed: the whole input
\* was delivered and decoded.
Finished == hist.last = "None" /\ hist.errors = 0

\* The value of a data line ("data:" and one space, if there, taken off), or
\* None for any other line.
data_value(line) ==
    LET v == strip_prefix(line, data_colon)
    IN  IF v = None THEN None
        ELSE IF v[1] # << >> /\ Head(v[1]) = 32 THEN Some(Tail(v[1])) ELSE v

\* The data of the blocks of ls that hold a data line and are closed by a
\* blank line, block by block; cur collects the data lines of the open block.
RECURSIVE closed_blocks(_, _)
closed_blocks(ls, cur) ==
    IF ls = << >> THEN << >>
    ELSE IF Head(ls) = << >>
         THEN (IF cur # << >> THEN <<join(cur)>> ELSE << >>)
              \o closed_blocks(Tail(ls), << >>)
         ELSE closed_blocks(Tail(ls), cur \o data_value(Head(ls)))

\* C1: chunk-boundary invariance: for every input B and every partition of B
\* into non-empty chunks, decoding the partition yields the same sequence of
\* events as decoding a body that delivers B as one chunk.
C1_ChunkInvariance ==
    Finished =>
        hist.events = collect(SseStream_new(from_bytes(hist.input)), << >>)

\* C2: for an LF-terminated input, every block with a data line that is closed
\* by a blank line yields exactly one event, in block order: the k-th event
\* carries the data of the k-th such block, and at most one more event (the
\* flush of an unclosed last block) follows them.
C2_OneEventPerBlock ==
    (hist.sent = None /\ hist.terminated /\ Finished) =>
        LET blocks == closed_blocks(hist.lines, << >>)
        IN  /\ Len(hist.events) \in {Len(blocks), Len(blocks) + 1}
            /\ \A k \in 1..Len(blocks) : hist.events[k].data = blocks[k]

\* C3: round trip: decoding the bytes of e.encode(), for an Event e with
\* non-empty data, yields exactly one event, equal to e in id, event type,
\* data and retry.
C3_RoundTrip ==
    (hist.sent # None /\ Finished) => hist.events = <<hist.sent[1]>>

\* C4: end-of-stream flush: when the input is data lines only and the last one
\* has no line terminator (the whole body is `data:b`, say), the decoder has
\* yielded exactly one event when it returns None, and the event's data ends
\* with that last line's value.
C4_PartialFlush ==
    (/\ hist.sent = None /\ ~hist.terminated /\ hist.lines # << >>
     /\ \A k \in 1..Len(hist.lines) : data_value(hist.lines[k]) # None
     /\ Finished) =>
        /\ Len(hist.events) = 1
        /\ LET d == hist.events[1].data
               v == data_value(hist.lines[Len(hist.lines)])[1]
           IN  Len(d) >= Len(v) /\ SubSeq(d, Len(d) - Len(v) + 1, Len(d)) = v

\* The data of every block of ls that holds a data line, the last block
\* included when no blank line closes it.
RECURSIVE all_blocks(_, _)
all_blocks(ls, cur) ==
    IF ls = << >> THEN (IF cur # << >> THEN <<join(cur)>> ELSE << >>)
    ELSE IF Head(ls) = << >>
         THEN (IF cur # << >> THEN <<join(cur)>> ELSE << >>)
              \o all_blocks(Tail(ls), << >>)
         ELSE all_blocks(Tail(ls), cur \o data_value(Head(ls)))

\* C18: multi-line join: the data of every event yielded is the values of the
\* data lines of one block of the input, joined with '\n' in arrival order,
\* one part per data line, whatever lines lie between them and wherever the
\* block sits in the stream.
C18_MultiLineJoin ==
    (hist.sent = None /\ hist.terminated) =>
        \A k \in 1..Len(hist.events) :
            \E j \in 1..Len(all_blocks(hist.lines, << >>)) :
                hist.events[k].data = all_blocks(hist.lines, << >>)[j]

\* C19: the body is polled only when the buffer holds no complete line: when
\* a pass has polled the body and returned None, Pending or the body's error,
\* no '\n' is left in the buffer.
C19_NoLineLeftBehind ==
    hist.last \in {"None", "Pending", "Err"} =>
        \A k \in 1..Len(sse.buffer) : sse.buffer[k] # LF

\* The bytes the body has delivered so far.
arrived ==
    IF sse.body.kind = "Once"
    THEN (IF sse.body.bytes = << >> THEN hist.input ELSE << >>)
    ELSE SubSeq(hist.input, 1, Len(hist.input) - Len(wire))

\* C20: a blank line consumed while data is pending dispatches at once: when
\* all that arrived has been consumed and it ends in a blank line, no data is
\* pending, also when the blank line arrived in a later chunk than the line
\* before it.
C20_BlankLineDispatches ==
    (/\ sse.buffer = << >>
     /\ Len(arrived) >= 2
     /\ arrived[Len(arrived)] = LF /\ arrived[Len(arrived) - 1] = LF) =>
        sse.partial_event.data = << >>

\* The body behind the decoder is at its end: nothing is left of an in-memory
\* payload, or the stream has delivered everything.
Exhausted ==
    /\ sse.body.kind = "Once" => sse.body.bytes = << >>
    /\ sse.body.kind = "HttpBody" => wire = << >>

\* C21: once the decoder has returned None, the body being exhausted, every
\* later poll returns None again and yields no further event, as long as the
\* body keeps reporting its end (does not fail instead); and a flush at the
\* end of the stream leaves no pending data for a second flush.
C21_FlushAtMostOnce ==
    [][/\ (hist.last = "None" /\ hist'.last # "Err")
            => (hist'.last = "None" /\ hist'.events = hist.events)
       /\ (~Parsed /\ Exhausted /\ hist'.last = "Event")
            => sse'.partial_event.data = << >>]_vars

\* The events the lines ls stand for when read one line at a time, starting
\* from the pending event pe: a field line is decoded and classified, a blank
\* line emits
\* the pending event if it has data and changes nothing otherwise.
RECURSIVE reference(_, _)
reference(ls, pe) ==
    IF ls = << >> THEN << >>
    ELSE IF Head(ls) # << >>
         THEN reference(Tail(ls), classify(pe, from_utf8_lossy(Head(ls))))
    ELSE IF pe.data # << >>
         THEN <<build_event(pe)>> \o reference(Tail(ls), PartialEvent_default)
         ELSE reference(Tail(ls), pe)

\* C22: a blank line met while no data is pending emits nothing and keeps the
\* pending id, event type and retry for the next event that carries data:
\* when the decoder has returned None over an in-memory body of terminated
\* lines, each event the lines stand for was yielded with the id, event type
\* and retry set before it, those of data-less blocks included.
C22_BlankLineKeepsFields ==
    (hist.sent = None /\ hist.terminated /\ Finished /\ sse.body.kind = "Once")
        => \A k \in 1..Len(reference(hist.lines, PartialEvent_default)) :
              /\ k <= Len(hist.events)
              /\ hist.events[k].id = reference(hist.lines, PartialEvent_default)[k].id
              /\ hist.events[k].event = reference(hist.lines, PartialEvent_default)[k].event
              /\ hist.events[k].retry = reference(hist.lines, PartialEvent_default)[k].retry

\* The buffer holds a complete line.
has_line == \E i \in DOMAIN sse.buffer : sse.buffer[i] = LF

\* p is a prefix of q.
is_prefix(p, q) == Len(p) <= Len(q) /\ SubSeq(q, 1, Len(p)) = p

\* C23: the pending event is reset exactly when an event is emitted: after a
\* pass that returned an event (from a blank line or the end-of-stream flush)
\* id, event type and retry are None and the data is empty; a pass that
\* returned no event dropped no pending data and cleared no pending field;
\* and a pass that met no complete line and returned no event (a chunk
\* boundary, a repeated poll) left the pending event unchanged.
C23_ResetOnEmission ==
    [][/\ hist'.last = "Event" => sse'.partial_event = PartialEvent_default
       /\ hist'.last # "Event" =>
            /\ is_prefix(sse.partial_event.data, sse'.partial_event.data)
            /\ sse.partial_event.id # None => sse'.partial_event.id # None
            /\ sse.partial_event.event # None => sse'.partial_event.event # None
            /\ sse.partial_event.retry # None => sse'.partial_event.retry # None
       /\ (hist'.last # "Event" /\ ~has_line) =>
            sse'.partial_event = sse.partial_event]_vars

\* The lines "id:2" and "data:b" were never closed by a blank line: the event
\* came from the end-of-stream flush, and nothing of it is pending after.
C23_Witness ==
    /\ hist.lines = <<id_colon \o <<50>>, data_colon \o <<98>> >>
    /\ hist.last = "Event"
    /\ hist.events = <<Event(Some(<<50>>), None, <<98>>, None)>>
    /\ sse.partial_event = PartialEvent_default

\* What the stream behind the body can produce when a pass polls it: its end,
\* an error, not being ready, or a chunk of what is on the wire.
Outcomes ==
    {<< >>, <<Err(IoError)>>, <<Pending>>}
        \cup {<<Ok(SubSeq(wire, 1, n))>> : n \in 1..Len(wire)}

\* The poll of the body a pass makes when the stream behind it produces next.
polled(next) ==
    Body_poll_next(IF sse.body.kind = "HttpBody"
                   THEN [sse.body EXCEPT !.src = next] ELSE sse.body)

\* C24: a pass of the decoder returns an error exactly when it polled the
\* body and that poll returned an error, and the error is BodyError with the
\* text of the body's error; whatever bytes are buffered (an invalid retry,
\* bytes that are not UTF-8, unknown fields) no other pass returns an error.
C24_ErrOnlyFromBody ==
    \A next \in Outcomes :
        /\ loop_pass(sse, next).ret.tag = "Err"
             <=> (~Parsed /\ polled(next).ret.tag = "Err")
        /\ loop_pass(sse, next).ret.tag = "Err"
             => loop_pass(sse, next).ret = BodyError(Error_to_string(polled(next).ret.err))

\* The decoder was given a frozen body and its poll returned the error.
C24_Witness ==
    /\ is_frozen(sse.body)
    /\ hist.last = "Err"
    /\ hist.errors = 1

\* The input was written with "\n" line ends.
lf_ended == hist.input = write_lines(hist.lines, <<LF>>)

\* The decoder has returned None over a block written with "\n" line ends.
block_read == hist.sent = None /\ hist.lines # << >> /\ lf_ended /\ Finished

\* The text is an unsigned integer: one or more decimal digits, after '+' or
\* not.
unsigned(v) ==
    \/ v # << >> /\ \A k \in DOMAIN v : v[k] \in ZERO..(ZERO + 9)
    \/ Len(v) > 1 /\ v[1] = PLUS /\ \A k \in 2..Len(v) : v[k] \in ZERO..(ZERO + 9)

\* The line starts with "retry:" and what follows (after one space, when the
\* line starts with "retry: ") is not an unsigned integer.
bad_retry(line) ==
    IF strip_prefix(line, retry_colon \o space) # None
    THEN ~unsigned(strip_prefix(line, retry_colon \o space)[1])
    ELSE /\ strip_prefix(line, retry_colon) # None
         /\ ~unsigned(strip_prefix(line, retry_colon)[1])

good_retry(line) == ~bad_retry(line)

\* C25: a retry line whose value is not an unsigned integer is ignored
\* without an error: the decoder yields the events of the block without that
\* line, so the event is still emitted and its retry is the one pending
\* before the line (None, or an earlier valid value).
C25_InvalidRetryIgnored ==
    (block_read /\ \E k \in DOMAIN hist.lines : bad_retry(hist.lines[k]))
        => hist.events = reference(SelectSeq(hist.lines, good_retry), PartialEvent_default)

\* "retry:7", "retry:x", "data: d" and a blank line were decoded into one
\* event with retry 7.
C25_Witness ==
    /\ block_read
    /\ hist.lines = <<retry_colon \o <<55>>, retry_colon \o <<120>>,
                      data_colon \o <<32, 100>>, << >> >>
    /\ hist.events = <<Event(None, None, <<100>>, Some(7))>>

\* The line is not blank and starts with none of "data:", "event:", "id:" and
\* "retry:": a comment, an unknown field, a field name after white space or
\* after a byte order mark.
inert(line) ==
    /\ line # << >>
    /\ \A p \in {data_colon, event_colon, id_colon, retry_colon} :
            strip_prefix(line, p) = None

known(line) == ~inert(line)

\* C26: comment lines and lines that match no known field change nothing of
\* the pending event and produce neither an event nor an error, before and
\* after the data of a block: the decoder yields the events of the block
\* without those lines.
C26_InertLines ==
    (block_read /\ \E k \in DOMAIN hist.lines : inert(hist.lines[k]))
        => hist.events = reference(SelectSeq(hist.lines, known), PartialEvent_default)

\* "retry:7", the comment ": c", "data: d" and a blank line were decoded into
\* one event with retry 7.
C26_Witness ==
    /\ block_read
    /\ hist.lines = <<retry_colon \o <<55>>, colon \o <<32, 99>>,
                      data_colon \o <<32, 100>>, << >> >>
    /\ hist.events = <<Event(None, None, <<100>>, Some(7))>>

\* The input was written with "\r\n" line ends.
crlf_ended == hist.input = write_lines(hist.lines, <<CR, LF>>)

\* C27: "\r\n" line ends are stripped like "\n": when the decoder has
\* returned None over a block written with "\r\n" line ends it has yielded
\* the events the same lines give with "\n" line ends (so no value ends in
\* '\r'), and a "\r\n" blank line dispatches: once the whole block has
\* arrived and been parsed its event is out, before the body ends.
C27_CrlfLikeLf ==
    (hist.sent = None /\ crlf_ended /\ hist.errors = 0)
        => /\ hist.last = "None"
                => hist.events = reference(hist.lines, PartialEvent_default)
           /\ (hist.last = "Pending" /\ wire = << >>)
                => hist.events = reference(hist.lines, PartialEvent_default)

\* The values of the data lines among ls, decoded, in order.
RECURSIVE data_values(_)
data_values(ls) ==
    IF ls = << >> THEN << >>
    ELSE (IF data_value(Head(ls)) = None THEN << >>
          ELSE <<from_utf8_lossy(data_value(Head(ls))[1])>>) \o data_values(Tail(ls))

\* C28: a data line contributes the text after "data:" with exactly one
\* leading space taken off if there is one, an empty text included, colons
\* kept: the data of the event of a block is these texts of its data lines
\* joined by "\n", and a block without data lines gives no event.
C28_DataValue ==
    block_read =>
        IF data_values(hist.lines) = << >> THEN hist.events = << >>
        ELSE /\ Len(hist.events) = 1
             /\ hist.events[1].data = join(data_values(hist.lines))

\* "data:  x:", "data: d" and a blank line were decoded into one event whose
\* data is " x:" and "d".
C28_Witness ==
    /\ block_read
    /\ hist.lines = <<data_colon \o <<32, 32, 120, 58>>, data_colon \o <<32, 100>>, << >> >>
    /\ Len(hist.events) = 1
    /\ hist.events[1].data = <<32, 120, 58, LF, 100>>

\* A field line as the wire format has it: the name, ": ", the value, "\n";
\* nothing for a field that is not set.
written(name, value) ==
    IF value = None THEN << >> ELSE name \o <<58, 32>> \o value[1] \o <<LF>>

\* The decimal digits of the retry values of EventSet.
decimal(retry) == IF retry = None THEN None ELSE Some(<<ZERO + retry[1]>>)

\* C29: Event::encode writes, in this order, the event line if the type is
\* set, the data line always, the id line if set, the retry line if set, and
\* one blank line; the bytes depend on the event only (they are what was put
\* on the wire for it) and end in "\n\n".
C29_EncodeOrder ==
    hist.sent # None =>
        /\ encode(hist.sent[1]) =
                written(<<101, 118, 101, 110, 116>>, hist.sent[1].event)
                \o written(<<100, 97, 116, 97>>, Some(hist.sent[1].data))
                \o written(<<105, 100>>, hist.sent[1].id)
                \o written(<<114, 101, 116, 114, 121>>, decimal(hist.sent[1].retry))
                \o <<LF>>
        /\ hist.input = encode(hist.sent[1])
        /\ Len(hist.input) >= 2
        /\ SubSeq(hist.input, Len(hist.input) - 1, Len(hist.input)) = <<LF, LF>>

\* The event with id "1", type "m", data "a" and retry 5 was encoded as
\* "event: m\ndata: a\nid: 1\nretry: 5\n\n" and the decoder read it to the end.
C29_Witness ==
    /\ hist.sent = Some(Event(Some(<<49>>), Some(<<109>>), <<97>>, Some(5)))
    /\ hist.input = <<101, 118, 101, 110, 116, 58, 32, 109, 10, 100, 97, 116, 97, 58, 32, 97, 10, 105, 100, 58, 32, 49, 10, 114, 101, 116, 114, 121, 58, 32, 53, 10, 10>>
    /\ Finished

---------------------------------------------------------------------------
(* Claims about Request and Response (under SpecMessage).                  *)

\* A call that reads the whole body of the message.
consumed == last'.op \in {"into_bytes", "into_string"}

\* C30 as stated: into_bytes and into_string consume the body: after a
\* successful call the body of the message is frozen; on a message whose body
\* is frozen into_bytes, into_string and take_body fail with BodyFrozen; and a
\* frozen body of a message stops being frozen only by replace_body.
C30_ConsumedUntilReplace ==
    [][/\ (consumed /\ last'.ret.tag = "Ok") => is_frozen(a'.body)
       /\ (is_frozen(a.body) /\ (consumed \/ last'.op = "take_body"))
            => last'.ret = Err(BodyFrozen)
       /\ (is_frozen(a.body) /\ ~is_frozen(a'.body)) => last'.op = "replace_body"]_vars

\* C30, amended: ... a frozen body of a message stops being frozen only by
\* replace_body or by map_body with a function that returns another body;
\* swap_body fails on it.
C30_ConsumedUntilReplaceOrMap ==
    [][/\ (consumed /\ last'.ret.tag = "Ok") => is_frozen(a'.body)
       /\ (is_frozen(a.body) /\ (consumed \/ last'.op \in {"take_body", "swap_body"}))
            => last'.ret = Err(BodyFrozen)
       /\ (is_frozen(a.body) /\ ~is_frozen(a'.body))
            => last'.op \in {"replace_body", "map_body"}]_vars

\* into_bytes was called on a message whose body an earlier call had frozen,
\* and failed with BodyFrozen.
C30_Witness ==
    /\ last = Did("into_bytes", Err(BodyFrozen), Moved)
    /\ origin = "take"
    /\ is_frozen(a.body)

\* The text holds no '\n'.
one_line(text) == \A k \in DOMAIN text : text[k] # LF

---------------------------------------------------------------------------
(* Claims about the lines and the polls of the decoder (under SpecSse).    *)

\* C32: field classification is handed one line at a time: no data element,
\* id or event type stored in the pending event holds a '\n', whatever the
\* input and its chunking.
C32_OneLineAtATime ==
    /\ \A k \in DOMAIN sse.partial_event.data : one_line(sse.partial_event.data[k])
    /\ sse.partial_event.id # None => one_line(sse.partial_event.id[1])
    /\ sse.partial_event.event # None => one_line(sse.partial_event.event[1])

\* C34: SseStream does not poll its body again once the body has reported
\* its end (None): the poll its consumer makes after an event, the event
\* flushed at the end of the stream included, never reaches a body that has
\* already ended.
C34_BodyNotPolledAfterEnd ==
    [][ (sse.body.kind = "HttpBody" /\ hist.last = "Event") => ~sse'.body.late ]_vars

---------------------------------------------------------------------------
(* Claims about Error (under SpecError).                                   *)

\* C31: on an Error built with Error::new(e, status) and not changed since,
\* downcast_ref::<T>() returns Some(e) when T is the type of e and None for
\* any other type, and status() returns the status given.
C31_DowncastRef ==
    (hist.how = "new" /\ origin = "new")
        => /\ last.op = "downcast_ref"
                => last.ret = IF last.new = type_id(b) THEN Some(b) ELSE None
           /\ last.op = "status" => last.ret = Some(hist.status)

---------------------------------------------------------------------------
(* Claims about the reader of a body (under SpecReader).                   *)

\* What the stream behind the reader has yet to produce.
remaining(reader) == IF reader.stream = None THEN << >> ELSE reader.stream[1].src

\* C35: the reader made by into_reader() of a stream-backed body delivers the
\* stream's data bytes in order, none lost and none twice (what was read,
\* what is buffered and what the stream has yet to deliver are together the
\* stream's data); it polls the stream only when its buffer is empty; it
\* never holds a stream that has reported its end, and once the stream is
\* dropped every read reports the end of input.  Over a frozen body every
\* read fails with the I/O error that wraps BodyFrozen.
C35_ReaderOverStream ==
    [][ /\ hist.created.kind = "HttpBody" =>
              /\ hist'.read \o a'.buf \o delivered(remaining(a'))
                    = delivered(hist.created.src)
              /\ a.buf # << >> => a'.stream = a.stream
              /\ a'.stream # None => ~a'.stream[1].done
              /\ (a.stream = None /\ last'.op \in {"poll_read", "poll_fill_buf"}) =>
                    (last'.ret = Ok(<< >>) /\ a' = a)
        /\ (hist.created.kind = "Freeze" /\ last'.op \in {"poll_read", "poll_fill_buf"}) =>
              last'.ret = Err(io_Error_other(BodyFrozen))
      ]_vars

\* A stream of a two-byte and a one-byte chunk was read to its end, the first
\* chunk in two reads; the stream is dropped and a further read gave nothing.
C35_Witness ==
    /\ hist.created = from_stream(<<Ok(<<255, 98>>), Ok(<<97>>)>>)
    /\ a.stream = None
    /\ hist.read = <<255, 98, 97>>
    /\ last.op = "poll_read" /\ last.ret = Ok(<< >>)

---------------------------------------------------------------------------
(* Claims about the MIME type of a body (under SpecConvert).               *)

\* C37: as_bytes(), as_str(), into_json() and into_form() change only how the
\* body holds its content: after a successful call mime() reports the MIME
\* type it reported before the call.
C37_MimeKept ==
    [][ (last'.op \in {"as_bytes", "as_str", "into_json", "into_form"}
            /\ last'.ret.tag = "Ok") =>
            mime(a') = mime(a)
      ]_vars

====
